---------------------------- MODULE Spec2Model ----------------------------
(***************************************************************************)
(* A model of the CodeAnalysisEngine of src/src/index.ts and of the MCP    *)
(* tool-call handler that drives it.                                       *)
(*                                                                         *)
(* Text is modelled at word granularity: a line is an indentation and a    *)
(* sequence of words separated by single blanks, a file is a sequence of   *)
(* lines (what content.split('\n') returns).  Every regular expression of  *)
(* the source is modelled by the words it matches.  JavaScript numbers     *)
(* that are not integers are carried in thousandths (fixed point), and the *)
(* non-finite values Infinity, -Infinity and NaN are carried explicitly.   *)
(***************************************************************************)
EXTENDS Integers, Sequences, FiniteSets, TLC

VARIABLES
    fsys,              \* the file system: path -> File(lines) or Unreadable
    cloneFilePaths,    \* analyzeCodeClones: the filePaths argument
    clonePc,           \* analyzeCodeClones: "idle", "pairs", "done"
    ci, cj,            \* analyzeCodeClones: the loop indices i and j (0-based)
    exactClones,       \* analyzeCodeClones: exactClones
    nearClones,        \* analyzeCodeClones: nearClones
    functionalClones,  \* analyzeCodeClones: functionalClones
    cloneResult,       \* analyzeCodeClones: the value returned (NoResult before)
    scanPath,          \* analyzeSecurity called on its own: the filePath argument
    scanResult,        \* analyzeSecurity called on its own: the value returned
    metricLines,       \* calculateMaintainabilityIndex called on its own: the argument
    metricResult,      \* calculateMaintainabilityIndex called on its own: the value returned
    duplicationLines,  \* calculateDuplication called on its own: the argument
    duplicationResult, \* calculateDuplication called on its own: the value returned
    duplicationBefore, \* the argument and value of the call before a line was appended
    codebasePath,      \* CodeAnalysisEngine: this.codebasePath
    codebaseFilePaths, \* analyzeCodebase: the list it was called with
    filePc,            \* analyzeCodebase: "idle", "files" (in the loop) or "returned"
    fileIndex,         \* analyzeCodebase: the number of files the loop has passed
    foundEntities,     \* analyzeCodebase: the local array entities
    foundRelationships, \* analyzeCodebase: the local array relationships
    foundVulnerabilities, \* analyzeCodebase: the local array vulnerabilities
    sumQualityMetrics, \* analyzeCodebase: the local accumulator qualityMetrics
    sessionBase,       \* the directory under which the latest session directory was made
    reports,           \* the files of the latest session directory: name -> content
    latePending,       \* generateComprehensiveReports: the reports it has yet to write
    analysisResult,    \* analyzeCodebase: the value returned (NoResult before)
    previousRun,       \* the list and the value returned of the call before this one
    toolPc,            \* the tool-call handler: "idle", "running" or "responded"
    toolRequest,       \* the tool-call handler: request.params of the call
    toolResponse       \* the tool-call handler: what the caller got

cloneVars == <<cloneFilePaths, clonePc, ci, cj, exactClones, nearClones,
               functionalClones, cloneResult>>
scanVars == <<scanPath, scanResult>>
metricVars == <<metricLines, metricResult>>
duplicationVars == <<duplicationLines, duplicationResult, duplicationBefore>>
codebaseVars == <<codebasePath, codebaseFilePaths, filePc, fileIndex, foundEntities,
                  foundRelationships, foundVulnerabilities, sumQualityMetrics, sessionBase,
                  reports, latePending, analysisResult, previousRun>>
toolVars == <<toolPc, toolRequest, toolResponse>>

vars == <<fsys, cloneVars, scanVars, metricVars, duplicationVars, codebaseVars, toolVars>>

-----------------------------------------------------------------------------
(* Bounds of the model *)

MaxCloneLines == 6
MaxCloneFiles == 2
MaxSecurityLines == 3
MaxMetricLines == 4
MaxFiles == 2
MaxToolFiles == 1
MaxSharedFiles == 3
MaxDuplicationLines == 3
MaxRunLines == 13
MaxNearLines == 4
MaxOpportunityFiles == 3

-----------------------------------------------------------------------------
(* Numbers *)

Milli == 10 * 10 * 10

Max(a, b) == IF a >= b THEN a ELSE b
Min(a, b) == IF a <= b THEN a ELSE b
Abs(a) == IF a >= 0 THEN a ELSE 0 - a

RECURSIVE SumSeq(_)
SumSeq(s) == IF s = <<>> THEN 0 ELSE Head(s) + SumSeq(Tail(s))

RECURSIVE Flatten(_)
Flatten(ss) == IF ss = <<>> THEN <<>> ELSE Head(ss) \o Flatten(Tail(ss))

Range(s) == {s[k] : k \in DOMAIN s}

-----------------------------------------------------------------------------
(* Words and lines *)

\* The number of characters of a word.
WordLen(w) ==
    CASE w \in {"{", "}", "#", "x", "="} -> 1
      [] w \in {"//", "if", "=="} -> 2
      [] w \in {"aaa", "bbb", "ccc", "ddd", "eee", "zzz", "def", "foo", "bar", "int"} -> 3
      [] w \in {"TODO", "void"} -> 4
      [] w \in {"class", "eval=", "catch", "const", "input"} -> 5
      [] w \in {"foo(){", "bar(){", "print(", "struct"} -> 6
      [] w \in {"SELECT+", "pickle(", "$query+"} -> 7
      [] w \in {"function"} -> 8
      [] w \in {"password=", "PASSWORD=", "OnTick(){", "A::foo(){"} -> 9
      [] w \in {"Math.random", "console.log"} -> 11
      [] w \in {"longlonglongword"} -> 130
      [] OTHER -> 3

Line(indent, words) == [indent |-> indent, words |-> words]

\* String.prototype.trim: the leading white space goes.
Trim(line) == [indent |-> 0, words |-> line.words]

\* line.length
LineLength(line) ==
    line.indent + SumSeq([k \in DOMAIN line.words |-> WordLen(line.words[k])])
    + (IF Len(line.words) > 0 THEN Len(line.words) - 1 ELSE 0)

HasWord(line, S) == \E k \in DOMAIN line.words : line.words[k] \in S

\* the words made of word characters only (\w+)
Identifiers ==
    {"x", "if", "aaa", "bbb", "ccc", "ddd", "eee", "zzz", "def", "foo", "bar", "int",
     "TODO", "void", "class", "catch", "const", "input", "struct", "function",
     "longlonglongword"}

\* the word characters a word starts with ("" when it starts with another character)
Ident(w) ==
    CASE w \in Identifiers -> w
      [] w = "foo(){" -> "foo"
      [] w = "bar(){" -> "bar"
      [] w = "OnTick(){" -> "OnTick"
      [] w = "A::foo(){" -> "A"
      [] w = "print(" -> "print"
      [] w = "pickle(" -> "pickle"
      [] w = "eval=" -> "eval"
      [] w = "password=" -> "password"
      [] w = "PASSWORD=" -> "PASSWORD"
      [] w = "SELECT+" -> "SELECT"
      [] w = "Math.random" -> "Math"
      [] w = "console.log" -> "console"
      [] OTHER -> ""

\* the word characters right before the "(" of a word ("" when it has no "(")
CallName(w) ==
    CASE w \in {"foo(){", "A::foo(){"} -> "foo"
      [] w = "bar(){" -> "bar"
      [] w = "OnTick(){" -> "OnTick"
      [] w = "print(" -> "print"
      [] w = "pickle(" -> "pickle"
      [] OTHER -> ""

\* every maximal run of word characters of a word
IdentsOf(w) ==
    CASE w = "A::foo(){" -> {"A", "foo"}
      [] w = "Math.random" -> {"Math", "random"}
      [] w = "console.log" -> {"console", "log"}
      [] w = "$query+" -> {"query"}
      [] Ident(w) = "" -> {}
      [] OTHER -> {Ident(w)}

HasOpenParen(w) == CallName(w) # ""
\* a ")" in these words is followed by "{"
HasCloseParen(w) == w \in {"foo(){", "bar(){", "OnTick(){", "A::foo(){"}
\* an identifier with "=" right after it
AssignWord(w) == w \in {"eval=", "password=", "PASSWORD="}
StartsWithEquals(w) == w \in {"=", "=="}
EndsWithWordChar(w) == w \in Identifiers \cup {"Math.random", "console.log"}

First(S) == CHOOSE p \in S : \A q \in S : p <= q

\* /class\s+(\w+)/ and /(?:class|struct)\s+(\w+)/, /def\s+(\w+)/: the capture of
\* the leftmost match, "" without a match
KeywordMatch(line, keywords) ==
    LET S == {p \in 1..(Len(line.words) - 1) :
                 /\ line.words[p] \in keywords
                 /\ Ident(line.words[p + 1]) # ""}
    IN  IF S = {} THEN "" ELSE Ident(line.words[First(S) + 1])

\* /(\w+)\s*\([^)]*\)\s*{/, with or without the optional type prefix before it:
\* the word characters before the first "(" when a ")" follows it, "" otherwise
CallMatch(line) ==
    LET opens == {p \in DOMAIN line.words : HasOpenParen(line.words[p])}
    IN  IF opens = {} THEN ""
        ELSE IF \E q \in First(opens)..Len(line.words) : HasCloseParen(line.words[q])
             THEN CallName(line.words[First(opens)])
             ELSE ""

\* a file of the file system; readFileSync throws for one that is not readable
File(lines) == [readable |-> TRUE, lines |-> lines]
Unreadable == [readable |-> FALSE, lines |-> <<>>]
Readable(path) == fsys[path].readable

-----------------------------------------------------------------------------
(* Clone detection: findExactClones, findNearClones *)

ExactMinLength == 5
NearMinLength == 3
LineSimilarityThreshold == 70
NearLowerBound == 80
NearUpperBound == 100

NoClone == [type |-> "none"]

\* line.split(/\s+/).filter(w => w.length > 2)
LongWords(line) == SelectSeq(line.words, LAMBDA w : WordLen(w) > 2)

\* calculateLineSimilarity, in thousandths; both arguments are trimmed lines
calculateLineSimilarity(line1, line2) ==
    IF line1 = line2 THEN 100 * Milli
    ELSE LET words1 == LongWords(line1)
             words2 == LongWords(line2)
             commonWords == Len(SelectSeq(words1, LAMBDA w : w \in Range(words2)))
             totalWords == Max(Len(words1), Len(words2))
         IN  IF totalWords > 0 THEN (commonWords * 100 * Milli) \div totalWords ELSE 0

\* the while loop of findExactClones: the number of consecutive pairs of equal
\* trimmed lines from (i, j) on, which is the value of matchLength after it
ExactMatchLength(lines1, lines2, i, j) ==
    LET limit == Min(Len(lines1) - i, Len(lines2) - j)
        Equal(k) == Trim(lines1[i + k + 1]) = Trim(lines2[j + k + 1])
    IN  CHOOSE m \in 0..limit :
            /\ \A k \in 0..(m - 1) : Equal(k)
            /\ m = limit \/ ~Equal(m)

ExactRiskMutant(matchLength) ==
    IF matchLength > 20 THEN "high" ELSE IF matchLength >= 10 THEN "medium" ELSE "low"

ExactRisk(matchLength) ==
    IF matchLength > 20 THEN "high" ELSE IF matchLength > 10 THEN "medium" ELSE "low"

ExactCloneMutant(lines1, lines2, file1, file2, i, matchLength) ==
    [type |-> "exact",
     primaryFile |-> file1,
     cloneFiles |-> <<file2>>,
     startLine |-> i + 1,
     endLine |-> i + 1 + matchLength,
     length |-> matchLength,
     similarity |-> 100 * Milli,
     cloneContent |-> SubSeq(lines1, i + 1, i + matchLength),
     risk |-> ExactRisk(matchLength),
     refactoringOpportunity |-> "Extract to shared utility function"]

\* the clone of lines 2116-2128: lines i + 1 to i + matchLength of the first file
ExactClone(lines1, lines2, file1, file2, i, matchLength) ==
    [type |-> "exact",
     primaryFile |-> file1,
     cloneFiles |-> <<file2>>,
     startLine |-> i + 1,
     endLine |-> i + matchLength,
     length |-> matchLength,
     similarity |-> 100 * Milli,
     cloneContent |-> SubSeq(lines1, i + 1, i + matchLength),
     risk |-> ExactRisk(matchLength),
     refactoringOpportunity |-> "Extract to shared utility function"]

\* The start pairs (i, j) of a double scan in the order the two for loops
\* visit them: i from 0 to rows - 1 and, for each i, j from 0 to cols - 1.
ScanOrder(rows, cols) ==
    [k \in 1..(rows * cols) |-> [i |-> (k - 1) \div cols, j |-> (k - 1) % cols]]

BestOfScanMutant(ok, score) ==
    LET scores == {score[k] : k \in {m \in DOMAIN ok : ok[m]}}
    IN  IF scores = {} THEN 0
        ELSE LET top == CHOOSE x \in scores : \A y \in scores : y <= x
             IN  CHOOSE k \in DOMAIN ok :
                    /\ ok[k] /\ score[k] = top
                    /\ \A m \in (k + 1)..Len(ok) : ~(ok[m] /\ score[m] = top)

\* The position in a scan of the candidate the loops leave in bestClone: a
\* candidate replaces bestClone only when its score is strictly larger, so the
\* one kept is the first in scan order of those with the largest score (0 when
\* no start pair is a candidate).  ok[k] tells the candidates, score[k] their scores.
BestOfScan(ok, score) ==
    LET scores == {score[k] : k \in {m \in DOMAIN ok : ok[m]}}
    IN  IF scores = {} THEN 0
        ELSE LET top == CHOOSE x \in scores : \A y \in scores : y <= x
             IN  CHOOSE k \in DOMAIN ok :
                    /\ ok[k] /\ score[k] = top
                    /\ \A m \in 1..(k - 1) : ~(ok[m] /\ score[m] = top)

\* the two for loops of findExactClones
findExactClones(lines1, lines2, file1, file2) ==
    LET rows == Max(0, Len(lines1) - ExactMinLength + 1)
        cols == Max(0, Len(lines2) - ExactMinLength + 1)
        at == ScanOrder(rows, cols)
        matchLength == [k \in DOMAIN at |->
                           ExactMatchLength(lines1, lines2, at[k].i, at[k].j)]
        ok == [k \in DOMAIN at |-> matchLength[k] >= ExactMinLength]
        best == BestOfScan(ok, matchLength)
    IN  IF best = 0 THEN NoClone
        ELSE ExactClone(lines1, lines2, file1, file2, at[best].i, matchLength[best])

\* what one pass of the while loop of findNearClones adds to similarity for a
\* pair of trimmed lines, or -1 when the pair ends the window (break)
NearLineScore(line1, line2) ==
    IF line1 = line2 THEN 100 * Milli
    ELSE IF calculateLineSimilarity(line1, line2) > LineSimilarityThreshold * Milli
    THEN calculateLineSimilarity(line1, line2)
    ELSE 0 - 1

\* the while loop of findNearClones: matchLength and similarity of the window at (i, j)
NearWindow(lines1, lines2, i, j) ==
    LET limit == Min(Len(lines1) - i, Len(lines2) - j)
        score == [k \in 0..(limit - 1) |->
                     NearLineScore(Trim(lines1[i + k + 1]), Trim(lines2[j + k + 1]))]
        length == CHOOSE m \in 0..limit :
                      /\ \A k \in 0..(m - 1) : score[k] >= 0
                      /\ m = limit \/ score[m] < 0
    IN  [matchLength |-> length,
         similarity |-> SumSeq([k \in 1..length |-> score[k - 1]])]

NearAcceptedMutant(avgSimilarity) == avgSimilarity >= NearLowerBound * Milli

\* the test of line 2168 on the average similarity of a window
NearAccepted(avgSimilarity) ==
    avgSimilarity >= NearLowerBound * Milli /\ avgSimilarity < NearUpperBound * Milli

NearClone(lines1, file1, file2, i, matchLength, avgSimilarity) ==
    [type |-> "near",
     primaryFile |-> file1,
     cloneFiles |-> <<file2>>,
     startLine |-> i + 1,
     endLine |-> i + matchLength,
     length |-> matchLength,
     similarity |-> avgSimilarity,
     cloneContent |-> SubSeq(lines1, i + 1, i + matchLength),
     risk |-> IF avgSimilarity > 90 * Milli THEN "medium" ELSE "low",
     refactoringOpportunity |-> "Consider consolidating similar implementations"]

\* the two for loops of findNearClones
findNearClones(lines1, lines2, file1, file2) ==
    LET rows == Max(0, Len(lines1) - NearMinLength + 1)
        cols == Max(0, Len(lines2) - NearMinLength + 1)
        at == ScanOrder(rows, cols)
        window == [k \in DOMAIN at |-> NearWindow(lines1, lines2, at[k].i, at[k].j)]
        avgSimilarity == [k \in DOMAIN at |->
                             IF window[k].matchLength > 0
                             THEN window[k].similarity \div window[k].matchLength
                             ELSE 0]
        ok == [k \in DOMAIN at |-> /\ window[k].matchLength >= NearMinLength
                                   /\ NearAccepted(avgSimilarity[k])]
        best == BestOfScan(ok, avgSimilarity)
    IN  IF best = 0 THEN NoClone
        ELSE NearClone(lines1, file1, file2, at[best].i,
                       window[best].matchLength, avgSimilarity[best])

-----------------------------------------------------------------------------
(* Clone detection: findFunctionalClones *)

FunctionalThreshold == 75
ContentPrefix == 100

\* the number of "{" and of "}" in a word
OpenBraces(w) == IF w \in {"{", "foo(){", "bar(){", "OnTick(){", "A::foo(){"} THEN 1 ELSE 0
CloseBraces(w) == IF w = "}" THEN 1 ELSE 0

BraceDelta(line) ==
    SumSeq([k \in DOMAIN line.words |->
                OpenBraces(line.words[k]) - CloseBraces(line.words[k])])

\* line.match(/function\s+\w+|def\s+\w+|\w+\s*\([^)]*\)\s*{/)
IsFunctionDefinition(line) ==
    \/ KeywordMatch(line, {"function"}) # ""
    \/ KeywordMatch(line, {"def"}) # ""
    \/ CallMatch(line) # ""

\* the inner for loop of extractFunctionPatterns: the 0-based end line
RECURSIVE FunctionEnd(_, _, _, _)
FunctionEnd(lines, i, j, braceCount) ==
    IF j >= Len(lines) THEN i
    ELSE LET count == braceCount + BraceDelta(lines[j + 1])
         IN  IF count <= 0 /\ j > i THEN j
             ELSE FunctionEnd(lines, i, j + 1, count)

RECURSIVE PatternsFrom(_, _)
PatternsFrom(lines, i) ==
    IF i >= Len(lines) THEN <<>>
    ELSE IF IsFunctionDefinition(lines[i + 1])
         THEN LET endLine == FunctionEnd(lines, i, i, 0)
              IN  <<[startLine |-> i + 1,
                     endLine |-> endLine + 1,
                     lines |-> endLine - i,
                     content |-> SubSeq(lines, i + 1, endLine + 1)]>>
                  \o PatternsFrom(lines, i + 1)
         ELSE PatternsFrom(lines, i + 1)

extractFunctionPatterns(lines) == PatternsFrom(lines, 0)

\* content.replace(/\s+/g, ' '): the words of all lines, one blank between
\* them, a leading blank when the text starts with white space and a trailing
\* one when it ends with white space (an empty last line)
Normalized(content) ==
    LET toks == Flatten([k \in DOMAIN content |->
                   [n \in DOMAIN content[k].words |->
                       [w |-> content[k].words[n],
                        len |-> WordLen(content[k].words[n])]]])
        first == content[1]
        last == content[Len(content)]
    IN  [lead |-> IF first.indent > 0 \/ (first.words = <<>> /\ Len(content) > 1)
                  THEN 1 ELSE 0,
         trail |-> IF last.words = <<>> /\ (Len(content) > 1 \/ last.indent > 0)
                      /\ toks # <<>>
                   THEN 1 ELSE 0,
         toks |-> toks]

\* the words of a normalized text that start before character position limit,
\* the last one cut at the limit
RECURSIVE CutWords(_, _, _)
CutWords(toks, pos, limit) ==
    IF toks = <<>> \/ pos >= limit THEN <<>>
    ELSE LET t == Head(toks)
         IN  IF pos + t.len > limit
             THEN <<[w |-> t.w, len |-> limit - pos]>>
             ELSE <<t>> \o CutWords(Tail(toks), pos + t.len + 1, limit)

NormalizedLength(norm) ==
    norm.lead + SumSeq([k \in DOMAIN norm.toks |-> norm.toks[k].len])
    + (IF Len(norm.toks) > 0 THEN Len(norm.toks) - 1 ELSE 0) + norm.trail

\* s.substring(0, 100) of a normalized text
Substring(norm, limit) ==
    [lead |-> IF limit > 0 THEN norm.lead ELSE 0,
     trail |-> IF NormalizedLength(norm) <= limit THEN norm.trail ELSE 0,
     toks |-> CutWords(norm.toks, norm.lead, limit)]

\* calculateLineSimilarity applied to two normalized texts
TextSimilarity(text1, text2) ==
    IF text1 = text2 THEN 100 * Milli
    ELSE LET words1 == SelectSeq(text1.toks, LAMBDA t : t.len > 2)
             words2 == SelectSeq(text2.toks, LAMBDA t : t.len > 2)
             commonWords == Len(SelectSeq(words1, LAMBDA t : t \in Range(words2)))
             totalWords == Max(Len(words1), Len(words2))
         IN  IF totalWords > 0 THEN (commonWords * 100 * Milli) \div totalWords ELSE 0

\* A JavaScript number: finite (in thousandths), or NaN, Infinity, -Infinity
Fin(v) == [kind |-> "fin", v |-> v]
NaN == [kind |-> "nan", v |-> 0]
PosInf == [kind |-> "+inf", v |-> 0]
NegInf == [kind |-> "-inf", v |-> 0]

\* calculateFunctionSimilarity: NaN when both spans have lines = 0 (0 / 0)
calculateFunctionSimilarity(pattern1, pattern2) ==
    LET lineDiff == Abs(pattern1.lines - pattern2.lines)
        maxLines == Max(pattern1.lines, pattern2.lines)
        contentSimilarity ==
            TextSimilarity(Substring(Normalized(pattern1.content), ContentPrefix),
                           Substring(Normalized(pattern2.content), ContentPrefix))
    IN  IF maxLines = 0 THEN NaN
        ELSE LET lineSimilarity ==
                     Max(0, 100 * Milli - (lineDiff * 50 * Milli) \div maxLines)
             IN  Fin((lineSimilarity + contentSimilarity) \div 2)

FunctionalClone(pattern1, file1, file2, similarity) ==
    [type |-> "functional",
     primaryFile |-> file1,
     cloneFiles |-> <<file2>>,
     startLine |-> pattern1.startLine,
     endLine |-> pattern1.endLine,
     length |-> pattern1.lines,
     similarity |-> similarity,
     cloneContent |-> pattern1.content,
     risk |-> IF similarity > 90 * Milli THEN "medium" ELSE "low",
     refactoringOpportunity |-> "Consider strategy pattern or shared interface"]

\* the two for loops of findFunctionalClones, from span pair (a, b) on (1-based)
RECURSIVE FunctionalScan(_, _, _, _, _, _)
FunctionalScan(patterns1, patterns2, file1, file2, a, b) ==
    IF a > Len(patterns1) THEN NoClone
    ELSE IF b > Len(patterns2)
         THEN FunctionalScan(patterns1, patterns2, file1, file2, a + 1, 1)
    ELSE LET similarity == calculateFunctionSimilarity(patterns1[a], patterns2[b])
         IN  IF similarity.kind = "fin" /\ similarity.v >= FunctionalThreshold * Milli
             THEN FunctionalClone(patterns1[a], file1, file2, similarity.v)
             ELSE FunctionalScan(patterns1, patterns2, file1, file2, a, b + 1)

findFunctionalClonesMutant(lines1, lines2, file1, file2) ==
    LET patterns2 == extractFunctionPatterns(lines2)
    IN  FunctionalScan(extractFunctionPatterns(lines1),
                       [k \in DOMAIN patterns2 |-> patterns2[Len(patterns2) + 1 - k]],
                       file1, file2, 1, 1)

findFunctionalClones(lines1, lines2, file1, file2) ==
    FunctionalScan(extractFunctionPatterns(lines1), extractFunctionPatterns(lines2),
                   file1, file2, 1, 1)

-----------------------------------------------------------------------------
(* Clone detection: calculateCloneMetrics, identifyRefactoringOpportunities *)

\* [...new Set(s)]: the first occurrences, in order
RECURSIVE Dedup(_)
Dedup(s) ==
    IF s = <<>> THEN <<>>
    ELSE LET rest == Dedup(SubSeq(s, 1, Len(s) - 1))
         IN  IF s[Len(s)] \in Range(rest) THEN rest ELSE Append(rest, s[Len(s)])

\* the files a list of clones names, primaryFile then cloneFiles, clone by clone
FilesOfClones(clones) ==
    Flatten([k \in DOMAIN clones |-> <<clones[k].primaryFile>> \o clones[k].cloneFiles])

Count(s, x) == Cardinality({k \in DOMAIN s : s[k] = x})

\* the key of the first entry of fileCloneCount with the largest count, or ''
MostClonedFile(named) ==
    LET keys == Dedup(named)
    IN  IF keys = <<>> THEN ""
        ELSE LET best == CHOOSE k \in DOMAIN keys :
                            /\ \A m \in DOMAIN keys : Count(named, keys[m]) <= Count(named, keys[k])
                            /\ \A m \in 1..(k - 1) : Count(named, keys[m]) < Count(named, keys[k])
             IN  keys[best]

RECURSIVE MaxOfSeq(_)
MaxOfSeq(s) == IF s = <<>> THEN 0 ELSE Max(Head(s), MaxOfSeq(Tail(s)))

calculateCloneMetrics(exact, near, functional, filePaths) ==
    LET allClones == exact \o near \o functional
        totalDuplicatedLines == SumSeq([k \in DOMAIN allClones |-> allClones[k].length])
        totalLines == SumSeq([k \in DOMAIN filePaths |->
                                 IF Readable(filePaths[k])
                                 THEN Len(fsys[filePaths[k]].lines) ELSE 0])
        named == FilesOfClones(allClones)
    IN  [totalClones |-> Len(allClones),
         totalDuplicatedLines |-> totalDuplicatedLines,
         duplicationPercentage |->
             IF totalLines > 0
             THEN (totalDuplicatedLines * 100 * Milli) \div totalLines ELSE 0,
         largestClone |-> MaxOfSeq([k \in DOMAIN allClones |-> allClones[k].length]),
         mostClonedFile |-> MostClonedFile(named),
         cloneDistribution |-> [f \in Range(named) |-> Count(named, f)]]

identifyRefactoringOpportunitiesMutant(exact, near, functional) ==
    LET largeExactClones == SelectSeq(exact, LAMBDA c : c.length > 10)
        significantFunctionalClones ==
            SelectSeq(functional, LAMBDA c : c.similarity > 80 * Milli)
    IN  (IF Len(largeExactClones) > 0
         THEN <<[type |-> "extract_method",
                 priority |-> "high",
                 benefit |-> SumSeq([k \in DOMAIN largeExactClones |->
                                        largeExactClones[k].length]),
                 affectedFiles |-> Dedup(FilesOfClones(largeExactClones)),
                 risk |-> "low"]>>
         ELSE <<>>)
        \o
        (IF Len(significantFunctionalClones) >= 2
         THEN <<[type |-> "strategy_pattern",
                 priority |-> "medium",
                 benefit |-> Len(significantFunctionalClones) * 20,
                 affectedFiles |-> Dedup(FilesOfClones(significantFunctionalClones)),
                 risk |-> "medium"]>>
         ELSE <<>>)

identifyRefactoringOpportunities(exact, near, functional) ==
    LET largeExactClones == SelectSeq(exact, LAMBDA c : c.length > 10)
        significantFunctionalClones ==
            SelectSeq(functional, LAMBDA c : c.similarity > 80 * Milli)
    IN  (IF Len(largeExactClones) > 0
         THEN <<[type |-> "extract_method",
                 priority |-> "high",
                 benefit |-> SumSeq([k \in DOMAIN largeExactClones |->
                                        largeExactClones[k].length]),
                 affectedFiles |-> Dedup(FilesOfClones(largeExactClones)),
                 risk |-> "low"]>>
         ELSE <<>>)
        \o
        (IF Len(significantFunctionalClones) > 2
         THEN <<[type |-> "strategy_pattern",
                 priority |-> "medium",
                 benefit |-> Len(significantFunctionalClones) * 20,
                 affectedFiles |-> Dedup(FilesOfClones(significantFunctionalClones)),
                 risk |-> "medium"]>>
         ELSE <<>>)

-----------------------------------------------------------------------------
(* Security rules: the regular expressions of securityPatterns *)

\* the keys of securityPatterns, in the order Object.entries yields them
PatternNames ==
    <<"sql_injection", "xss", "secrecy_leak", "insecure_random", "unsafe_deserialize">>

\* the words at which a match of a rule starts
\*   sql_injection       /SELECT.*\+.*|INSERT.*\+.*|\$query.*\+|(execute|query).*\%s/g
\*   xss                 /(innerHTML|outerHTML|document\.write|eval)\s*[\+=]/g
\*   secrecy_leak        /password.*=|token.*=|(api_key|secret|private_key).*=/gi
\*   insecure_random     /Math\.random|rand\(\)|srand\(time/g
\*   unsafe_deserialize  /(pickle|unserialize|yaml\.load)\(/g
MatchStarts(patternName) ==
    CASE patternName = "sql_injection" -> {"SELECT+", "$query+"}
      [] patternName = "xss" -> {"eval="}
      [] patternName = "secrecy_leak" -> {"password=", "PASSWORD="}
      [] patternName = "insecure_random" -> {"Math.random"}
      [] patternName = "unsafe_deserialize" -> {"pickle("}

\* the words that hold a "+" and those that hold an "=" (both at their end)
PlusWords == {"SELECT+", "$query+"}
EqualsWords == {"password=", "PASSWORD=", "eval=", "==", "="}

\* the character index at which word p of a line starts, and the one after its end
WordStart(line, p) ==
    line.indent + SumSeq([k \in 1..(p - 1) |-> WordLen(line.words[k]) + 1])
WordEnd(line, p) == WordStart(line, p) + WordLen(line.words[p])

LastWordIn(line, p, S) ==
    CHOOSE q \in p..Len(line.words) :
        /\ line.words[q] \in S
        /\ \A m \in (q + 1)..Len(line.words) : line.words[m] \notin S

\* the index after the end of the match that starts at word p: ".*" is greedy, so
\* SELECT.*\+.* runs to the end of the line, \$query.*\+ to the last "+" and
\* password.*= to the last "="; the other rules match inside the word
MatchEnd(patternName, line, p) ==
    CASE line.words[p] = "SELECT+" -> LineLength(line)
      [] line.words[p] = "$query+" -> WordEnd(line, LastWordIn(line, p, PlusWords))
      [] line.words[p] \in {"password=", "PASSWORD="} ->
             WordEnd(line, LastWordIn(line, p, EqualsWords))
      [] line.words[p] = "eval=" -> WordEnd(line, p)
      [] line.words[p] = "Math.random" -> WordEnd(line, p)
      [] line.words[p] = "pickle(" -> WordEnd(line, p) 

NoMatch == [found |-> FALSE, index |-> 0, end |-> 0]

\* RegExpBuiltinExec: the leftmost match that starts at or after lastIndex
RegExpExec(patternName, line, lastIndex) ==
    LET starts == {p \in DOMAIN line.words :
                      /\ line.words[p] \in MatchStarts(patternName)
                      /\ WordStart(line, p) >= lastIndex}
    IN  IF starts = {} THEN NoMatch
        ELSE LET p == CHOOSE q \in starts : \A m \in starts : q <= m
             IN  [found |-> TRUE, index |-> WordStart(line, p),
                  end |-> MatchEnd(patternName, line, p)]

\* regex.test(line) of a global regex: the search starts at lastIndex; a match
\* leaves lastIndex after its end, a failure leaves it 0
RegExpTest(patternName, line, lastIndex) ==
    LET m == RegExpExec(patternName, line, lastIndex)
    IN  [found |-> m.found, lastIndex |-> IF m.found THEN m.end ELSE 0]

LastIndexAfterMatchMutant(lastIndex) == lastIndex

\* line.match(regex) of a global regex sets lastIndex to 0, collects every match
\* and leaves lastIndex 0 (the exec that ends the collection fails)
LastIndexAfterMatch(lastIndex) == 0

\* line.indexOf(line.match(regex)[0]) + 1: match[0] is the first match from index 0
MatchColumn(patternName, line) == RegExpExec(patternName, line, 0).index + 1

SeverityOfMutant(patternName) ==
    CASE patternName = "sql_injection" -> "critical"
      [] patternName = "xss" -> "high"
      [] patternName = "secrecy_leak" -> "critical"
      [] OTHER -> "low"

\* the switch of lines 3238-3264: severity
SeverityOf(patternName) ==
    CASE patternName = "sql_injection" -> "critical"
      [] patternName = "xss" -> "high"
      [] patternName = "secrecy_leak" -> "critical"
      [] patternName = "insecure_random" -> "medium"
      [] patternName = "unsafe_deserialize" -> "critical"
      [] OTHER -> "low"

\* the switch of lines 3238-3264: description
DescriptionOf(patternName) ==
    CASE patternName = "sql_injection" -> "Potential SQL injection vulnerability"
      [] patternName = "xss" -> "Potential XSS vulnerability"
      [] patternName = "secrecy_leak" -> "Potential secret exposure"
      [] patternName = "insecure_random" -> "Insecure random number generation"
      [] patternName = "unsafe_deserialize" -> "Unsafe deserialization"
      [] OTHER -> ""

Vulnerability(patternName, filePath, i, line) ==
    [type |-> patternName,
     severity |-> SeverityOf(patternName),
     location |-> [file |-> filePath, line |-> i + 1,
                   column |-> MatchColumn(patternName, line)],
     description |-> DescriptionOf(patternName)]

\* The state of the scan: the lastIndex of each regex and the findings so far.
\* The regex objects are created by the call (line 3221), so lastIndex starts at 0.
ScanStart ==
    [lastIndex |-> [r \in Range(PatternNames) |-> 0], vulnerabilities |-> <<>>]

\* the body of the inner loop (lines 3233-3273) for rule k on line i (0-based)
ScanRule(st, filePath, line, i, k) ==
    LET patternName == PatternNames[k]
        t == RegExpTest(patternName, line, st.lastIndex[patternName])
    IN  IF t.found
        THEN [lastIndex |-> [st.lastIndex EXCEPT
                                ![patternName] = LastIndexAfterMatch(t.lastIndex)],
              vulnerabilities |-> Append(st.vulnerabilities,
                                         Vulnerability(patternName, filePath, i, line))]
        ELSE [lastIndex |-> [st.lastIndex EXCEPT ![patternName] = t.lastIndex],
              vulnerabilities |-> st.vulnerabilities]

RECURSIVE ScanRules(_, _, _, _, _)
ScanRules(st, filePath, line, i, k) ==
    IF k > Len(PatternNames) THEN st
    ELSE ScanRules(ScanRule(st, filePath, line, i, k), filePath, line, i, k + 1)

RECURSIVE ScanLines(_, _, _, _)
ScanLines(st, filePath, lines, i) ==
    IF i >= Len(lines) THEN st
    ELSE ScanLines(ScanRules(st, filePath, lines[i + 1], i, 1), filePath, lines, i + 1)

analyzeSecurity(lines, filePath) == ScanLines(ScanStart, filePath, lines, 0).vulnerabilities

-----------------------------------------------------------------------------
(* Quality metrics *)

\* The arithmetic of JavaScript numbers on the values above.
ExtNeg(a) ==
    CASE a.kind = "fin" -> Fin(0 - a.v)
      [] a.kind = "+inf" -> NegInf
      [] a.kind = "-inf" -> PosInf
      [] OTHER -> NaN

ExtAdd(a, b) ==
    CASE a.kind = "nan" \/ b.kind = "nan" -> NaN
      [] a.kind = "fin" /\ b.kind = "fin" -> Fin(a.v + b.v)
      [] a.kind = "fin" -> b
      [] b.kind = "fin" -> a
      [] a.kind = b.kind -> a
      [] OTHER -> NaN

ExtSub(a, b) == ExtAdd(a, ExtNeg(b))

\* a * (num / den) for a positive factor num / den
ExtScale(num, den, a) == IF a.kind = "fin" THEN Fin((a.v * num) \div den) ELSE a

\* Math.min and Math.max: NaN when an argument is NaN
MathMin(a, b) ==
    CASE a.kind = "nan" \/ b.kind = "nan" -> NaN
      [] a.kind = "-inf" \/ b.kind = "-inf" -> NegInf
      [] a.kind = "+inf" -> b
      [] b.kind = "+inf" -> a
      [] OTHER -> Fin(Min(a.v, b.v))

MathMax(a, b) ==
    CASE a.kind = "nan" \/ b.kind = "nan" -> NaN
      [] a.kind = "+inf" \/ b.kind = "+inf" -> PosInf
      [] a.kind = "-inf" -> b
      [] b.kind = "-inf" -> a
      [] OTHER -> Fin(Max(a.v, b.v))

\* 1000 * ln(n), rounded, for n = 1..16
LnTable ==
    <<0, 693, 1099, 1386, 1609, 1792, 1946, 2079, 2197, 2303, 2398, 2485, 2565, 2639,
      2708, 2773>>

\* Math.log on a line count: -Infinity at 0
MathLog(n) == IF n = 0 THEN NegInf ELSE Fin(LnTable[n])

\* /\bif\b|\bwhile\b|\bfor\b|\bcase\b|\bcatch\b/g
ComplexityKeywords == {"if", "while", "for", "case", "catch"}

calculateCyclomaticComplexity(lines) ==
    SumSeq([k \in DOMAIN lines |->
               Len(SelectSeq(lines[k].words, LAMBDA w : w \in ComplexityKeywords))]) + 1

\* line.trim().startsWith('#') || line.trim().startsWith('//')
IsCommentLine(line) == Len(line.words) > 0 /\ line.words[1] \in {"#", "//"}

CommentRatioMutant(comments, loc) ==
    IF loc = 0 THEN NaN ELSE Fin((comments * 100 * Milli) \div loc)

\* loc > 0 ? (comments / loc) * 100 : 0
CommentRatio(comments, loc) ==
    IF loc > 0 THEN Fin((comments * 100 * Milli) \div loc) ELSE Fin(0)

MaxMaintainability == 171
\* 50 * Math.sin(Math.sqrt(2.4 * 0.1)) = 23.5268, in thousandths
SinTerm == 23527

calculateMaintainabilityIndex(lines) ==
    LET loc == Len(lines)
        comments == Cardinality({k \in DOMAIN lines : IsCommentLine(lines[k])})
        commentRatio == CommentRatio(comments, loc)
        mi == ExtAdd(ExtSub(ExtSub(Fin(MaxMaintainability * Milli),
                                   ExtScale(52, 10, MathLog(loc))),
                            ExtScale(23, 100, commentRatio)),
                     Fin(SinTerm))
    IN  MathMax(Fin(0), MathMin(Fin(MaxMaintainability * Milli), mi))

LongLine == 120
\* the hours one line adds: 0.1, 0.5, 0.2 and 0.3
LineDebt(line) ==
    (IF LineLength(line) > LongLine THEN 100 ELSE 0)
    + (IF HasWord(line, {"TODO", "FIXME"}) THEN 500 ELSE 0)
    + (IF HasWord(line, {"console.log", "print("}) THEN 200 ELSE 0)
    + (IF HasWord(line, {"Exception", "catch"}) THEN 300 ELSE 0)

estimateTechnicalDebt(lines) == SumSeq([k \in DOMAIN lines |-> LineDebt(lines[k])])

DuplicationMinLength == 10

\* the lines longer than 10 after trimming that have an equal one after them,
\* as a percentage of all lines
calculateDuplication(lines) ==
    LET trimmedLines ==
            SelectSeq([k \in DOMAIN lines |-> Trim(lines[k])],
                      LAMBDA line : LineLength(line) > DuplicationMinLength)
        duplicatedLines ==
            Cardinality({i \in DOMAIN trimmedLines :
                            \E j \in (i + 1)..Len(trimmedLines) :
                                trimmedLines[i] = trimmedLines[j]})
    IN  IF Len(lines) > 0 THEN (duplicatedLines * 100 * Milli) \div Len(lines) ELSE 0

analyzeQuality(lines) ==
    [cyclomaticComplexity |-> calculateCyclomaticComplexity(lines),
     maintainabilityIndex |-> calculateMaintainabilityIndex(lines),
     technicalDebtHours |-> estimateTechnicalDebt(lines),
     duplicationPercentage |-> calculateDuplication(lines),
     testCoverage |-> 0]

\* the accumulator of analyzeCodebase (lines 570-576)
ZeroMetrics ==
    [cyclomaticComplexity |-> 0, maintainabilityIndex |-> Fin(0),
     technicalDebtHours |-> 0, duplicationPercentage |-> 0, testCoverage |-> 0]

updateQualityMetricsMutant(metrics, fileMetrics) ==
    [fileMetrics EXCEPT !.testCoverage = metrics.testCoverage]

\* updateQualityMetrics: each of the four fields is added to the accumulator
updateQualityMetrics(metrics, fileMetrics) ==
    [cyclomaticComplexity |->
         metrics.cyclomaticComplexity + fileMetrics.cyclomaticComplexity,
     maintainabilityIndex |->
         ExtAdd(metrics.maintainabilityIndex, fileMetrics.maintainabilityIndex),
     technicalDebtHours |-> metrics.technicalDebtHours + fileMetrics.technicalDebtHours,
     duplicationPercentage |->
         metrics.duplicationPercentage + fileMetrics.duplicationPercentage,
     testCoverage |-> metrics.testCoverage]

finalizeQualityMetrics(metrics) == metrics

calculateOverallQualityScore(metrics) ==
    LET complexityScore == Max(0, 100 * Milli - metrics.cyclomaticComplexity * Milli * 2)
        maintainabilityScore == ExtScale(100, MaxMaintainability, metrics.maintainabilityIndex)
        duplicationScore == Max(0, 100 * Milli - metrics.duplicationPercentage)
        debtScore == Max(0, 100 * Milli - metrics.technicalDebtHours)
    IN  ExtScale(1, 4, ExtAdd(maintainabilityScore,
                              Fin(complexityScore + duplicationScore + debtScore)))

-----------------------------------------------------------------------------
(* Entities *)

\* the name of a function entity that matched without a capture group
Undefined == "<undefined>"

Entity(type, name, filePath, i, line) ==
    [type |-> type, name |-> name, filePath |-> filePath, lineNumber |-> i + 1,
     codeSnippet |-> Trim(line)]

PythonLineEntities(line, filePath, i) ==
    LET classMatch == KeywordMatch(line, {"class"})
        funcMatch == KeywordMatch(line, {"def"})
    IN  (IF classMatch # "" THEN <<Entity("class", classMatch, filePath, i, line)>>
         ELSE <<>>)
        \o (IF funcMatch # "" THEN <<Entity("function", funcMatch, filePath, i, line)>>
            ELSE <<>>)

extractPythonEntitiesMutant(lines, filePath) ==
    Flatten([k \in DOMAIN lines |->
                PythonLineEntities(lines[Len(lines) + 1 - k], filePath, Len(lines) - k)])

\* the loop over the lines, first to last
extractPythonEntities(lines, filePath) ==
    Flatten([k \in DOMAIN lines |-> PythonLineEntities(lines[k], filePath, k - 1)])

\* the word that holds the "=" of a match of \w+\s*= whose \w+ ends word p (0: none)
EqualsAt(line, p) ==
    IF AssignWord(line.words[p]) THEN p
    ELSE IF /\ EndsWithWordChar(line.words[p])
            /\ p < Len(line.words)
            /\ StartsWithEquals(line.words[p + 1])
         THEN p + 1
         ELSE 0

ParenAfter(line, p) == \E q \in (p + 1)..Len(line.words) : HasOpenParen(line.words[q])

\* /(?:function\s+(\w+)|\w+\s*=.*?\(|const\s+(\w+)\s*=.*?\()/: the leftmost match;
\* funcName is capture 1 or capture 2, Undefined when the second alternative matched
JSFunctionMatch(line) ==
    LET n == Len(line.words)
        A1 == {p \in 1..(n - 1) :
                  line.words[p] = "function" /\ Ident(line.words[p + 1]) # ""}
        A2 == {p \in 1..n : EqualsAt(line, p) # 0 /\ ParenAfter(line, EqualsAt(line, p))}
        A3 == {p \in 1..(n - 1) :
                  /\ line.words[p] = "const"
                  /\ \/ AssignWord(line.words[p + 1])
                     \/ line.words[p + 1] \in Identifiers
                  /\ EqualsAt(line, p + 1) # 0
                  /\ ParenAfter(line, EqualsAt(line, p + 1))}
        A == A1 \cup A2 \cup A3
    IN  IF A = {} THEN [found |-> FALSE, funcName |-> Undefined]
        ELSE LET p == First(A)
             IN  [found |-> TRUE,
                  funcName |-> IF p \in A1 THEN Ident(line.words[p + 1])
                               ELSE IF p \in A2 THEN Undefined
                               ELSE Ident(line.words[p + 1])]

JSLineEntities(line, filePath, i) ==
    LET classMatch == KeywordMatch(line, {"class"})
        funcMatch == JSFunctionMatch(line)
    IN  (IF classMatch # "" THEN <<Entity("class", classMatch, filePath, i, line)>>
         ELSE <<>>)
        \o (IF /\ funcMatch.found
               /\ \/ funcMatch.funcName # Undefined /\ ~HasWord(line, EqualsWords)
                  \/ HasWord(line, {"function"})
            THEN <<Entity("function", funcMatch.funcName, filePath, i, line)>>
            ELSE <<>>)

extractJSEntities(lines, filePath) ==
    Flatten([k \in DOMAIN lines |-> JSLineEntities(lines[k], filePath, k - 1)])

\* the words that hold "::"
ScopeWords == {"A::foo(){"}

CppLineEntities(lines, filePath, i) ==
    LET line == lines[i + 1]
        classMatch == KeywordMatch(line, {"class", "struct"})
        funcMatch == CallMatch(line)
    IN  (IF classMatch # "" THEN <<Entity("class", classMatch, filePath, i, line)>>
         ELSE <<>>)
        \o (IF funcMatch # "" /\ ~HasWord(line, {"class"}) /\ ~HasWord(line, {"struct"})
            THEN <<Entity("function", funcMatch, filePath, i, line)>>
            ELSE <<>>)
        \o (IF /\ funcMatch # ""
               /\ \/ HasWord(line, ScopeWords)
                  \/ i > 0 /\ HasWord(lines[i], ScopeWords)
            THEN <<Entity("method", funcMatch, filePath, i, line)>>
            ELSE <<>>)

extractCppEntities(lines, filePath) ==
    Flatten([k \in DOMAIN lines |-> CppLineEntities(lines, filePath, k - 1)])

\* /(?:int|double|bool|void|string|datetime)\s+(\w+)\s*\([^)]*\)\s*{/i
MQL5FunctionMatch(line) ==
    LET S == {p \in 1..(Len(line.words) - 1) :
                 /\ line.words[p] \in {"int", "void"}
                 /\ CallName(line.words[p + 1]) # ""
                 /\ CallName(line.words[p + 1]) = Ident(line.words[p + 1])
                 /\ \E q \in (p + 1)..Len(line.words) : HasCloseParen(line.words[q])}
    IN  IF S = {} THEN "" ELSE CallName(line.words[First(S) + 1])

\* /(?:extern|input)\s+(?:int|double|bool|string|datetime)\s+(\w+)/i
MQL5VariableMatch(line) ==
    LET S == {p \in 1..(Len(line.words) - 2) :
                 /\ line.words[p] \in {"extern", "input"}
                 /\ line.words[p + 1] \in {"int"}
                 /\ Ident(line.words[p + 2]) # ""}
    IN  IF S = {} THEN "" ELSE Ident(line.words[First(S) + 2])

\* /(OnInit|OnDeinit|OnTick|OnTimer|OnTrade|OnTester)\s*\(/i
MQL5EventMatch(line) ==
    LET S == {p \in DOMAIN line.words :
                 CallName(line.words[p]) \in
                     {"OnInit", "OnDeinit", "OnTick", "OnTimer", "OnTrade", "OnTester"}}
    IN  IF S = {} THEN "" ELSE CallName(line.words[First(S)])

MQL5LineEntities(line, filePath, i) ==
    LET classMatch == KeywordMatch(line, {"class"})
        funcMatch == MQL5FunctionMatch(line)
        varMatch == MQL5VariableMatch(line)
        eventMatch == MQL5EventMatch(line)
    IN  (IF classMatch # "" THEN <<Entity("class", classMatch, filePath, i, line)>>
         ELSE <<>>)
        \o (IF funcMatch # "" THEN <<Entity("function", funcMatch, filePath, i, line)>>
            ELSE <<>>)
        \o (IF varMatch # "" THEN <<Entity("variable", varMatch, filePath, i, line)>>
            ELSE <<>>)
        \o (IF eventMatch # "" THEN <<Entity("function", eventMatch, filePath, i, line)>>
            ELSE <<>>)

extractMQL5Entities(lines, filePath) ==
    Flatten([k \in DOMAIN lines |-> MQL5LineEntities(lines[k], filePath, k - 1)])

\* path.extname(filePath) and path.basename(filePath, path.extname(filePath))
ExtName(filePath) ==
    CASE filePath = "a.py" -> ".py"
      [] filePath = "A.PY" -> ".PY"
      [] filePath \in {"a.js", "b.js"} -> ".js"
      [] filePath = "b.cpp" -> ".cpp"
      [] filePath = "d.mq5" -> ".mq5"
      [] filePath = "c++.txt" -> ".txt"
      [] OTHER -> ""

BaseName(filePath) ==
    CASE filePath \in {"a.py", "a.js"} -> "a"
      [] filePath = "A.PY" -> "A"
      [] filePath \in {"b.js", "b.cpp"} -> "b"
      [] filePath = "d.mq5" -> "d"
      [] filePath = "c++.txt" -> "c++"
      [] OTHER -> filePath

\* String.prototype.toLowerCase on an extension
ToLowerCase(extension) ==
    CASE extension = ".PY" -> ".py"
      [] extension = ".JS" -> ".js"
      [] OTHER -> extension

detectLanguageMutant(extension) ==
    CASE extension = ".py" -> "python"
      [] extension = ".js" -> "javascript"
      [] extension = ".ts" -> "typescript"
      [] extension \in {".cpp", ".cc", ".cxx", ".h", ".hpp"} -> "cpp"
      [] extension = ".c" -> "c"
      [] extension \in {".mq5", ".mqh"} -> "mql5"
      [] OTHER -> extension

\* langMap[extension] || 'unknown'
detectLanguage(extension) ==
    CASE extension = ".py" -> "python"
      [] extension = ".js" -> "javascript"
      [] extension = ".ts" -> "typescript"
      [] extension \in {".cpp", ".cc", ".cxx", ".h", ".hpp"} -> "cpp"
      [] extension = ".c" -> "c"
      [] extension \in {".mq5", ".mqh"} -> "mql5"
      [] OTHER -> "unknown"

extractGenericEntities(lines, filePath) ==
    <<[type |-> "module", name |-> BaseName(filePath), filePath |-> filePath,
       lineNumber |-> 1, codeSnippet |-> Line(0, <<"module", filePath>>)]>>

extractEntities(lines, filePath) ==
    LET language == detectLanguage(ToLowerCase(ExtName(filePath)))
    IN  CASE language = "python" -> extractPythonEntities(lines, filePath)
          [] language \in {"javascript", "typescript"} -> extractJSEntities(lines, filePath)
          [] language \in {"cpp", "c"} -> extractCppEntities(lines, filePath)
          [] language = "mql5" -> extractMQL5Entities(lines, filePath)
          [] OTHER -> extractGenericEntities(lines, filePath)

\* the entity names for which new RegExp(`\\b${entity.name}\\s*\\(`, 'g') throws
\* a SyntaxError ("nothing to repeat")
InvalidPatterns == {"c++"}

\* `${entity.name}`
PatternSource(name) == IF name = Undefined THEN "undefined" ELSE name

AllWords(lines) == Flatten([k \in DOMAIN lines |-> lines[k].words])

EntityRelationships(entity, lines, filePath) ==
    LET name == PatternSource(entity.name)
        words == AllWords(lines)
        functionCalls == SelectSeq(words, LAMBDA w : CallName(w) = name)
        references == SelectSeq(words, LAMBDA w : name \in IdentsOf(w))
    IN  (IF Len(functionCalls) > 0
         THEN <<[from |-> filePath, to |-> entity.name, type |-> "calls",
                 confidence |-> 700]>>
         ELSE <<>>)
        \o (IF Len(references) > 1
            THEN <<[from |-> filePath, to |-> entity.name, type |-> "references",
                    confidence |-> 600]>>
            ELSE <<>>)

\* findRelationships over the entities found so far, in all files; it throws when
\* one of their names is no regular expression
findRelationships(entities, lines, filePath) ==
    IF \E k \in DOMAIN entities : entities[k].name \in InvalidPatterns
    THEN [threw |-> TRUE, relationships |-> <<>>]
    ELSE [threw |-> FALSE,
          relationships |->
              Flatten([k \in DOMAIN entities |->
                          EntityRelationships(entities[k], lines, filePath)])]

-----------------------------------------------------------------------------
(* analyzeCodeClones as a state machine: one step per pair of list positions *)

NoResult == [status |-> "none"]

\* every list of at most n elements of S
Lists(S, n) == UNION {[1..k -> S] : k \in 0..n}

\* the next pair of list positions (i < j < n) from (i, j) on, or i >= n
RECURSIVE AdvancePair(_, _, _)
AdvancePair(i, j, n) ==
    IF i >= n THEN <<i, j>>
    ELSE IF j >= n THEN AdvancePair(i + 1, i + 2, n)
    ELSE <<i, j>>

PushIfFoundMutant(clones, clone) ==
    IF clone # NoClone THEN clones \o <<clone, clone>> ELSE clones

\* if (clone) clones.push(clone)
PushIfFound(clones, clone) == IF clone # NoClone THEN Append(clones, clone) ELSE clones

\* the start of analyzeCodeClones: the declarations of lines 2047-2051 and the
\* loop heads
StartClones(paths) ==
    /\ cloneFilePaths' = paths
    /\ exactClones' = <<>>
    /\ nearClones' = <<>>
    /\ functionalClones' = <<>>
    /\ ci' = AdvancePair(0, 1, Len(paths))[1]
    /\ cj' = AdvancePair(0, 1, Len(paths))[2]
    /\ clonePc' = "pairs"
    /\ cloneResult' = NoResult

\* engine.analyzeCodeClones(filePaths), called directly on an engine
AnalyzeCodeClones(filePaths) ==
    /\ clonePc = "idle"
    /\ toolPc = "idle"
    /\ StartClones(filePaths)
    /\ UNCHANGED <<fsys, scanVars, metricVars, duplicationVars, codebaseVars, toolVars>>

\* one pass through the body of the inner loop (lines 2056-2077)
ComparePair ==
    /\ clonePc = "pairs"
    /\ ci < Len(cloneFilePaths)
    /\ LET file1 == cloneFilePaths[ci + 1]
           file2 == cloneFilePaths[cj + 1]
           next == AdvancePair(ci, cj + 1, Len(cloneFilePaths))
       IN  /\ IF Readable(file1) /\ Readable(file2)
              THEN LET content1 == fsys[file1].lines
                       content2 == fsys[file2].lines
                   IN  /\ exactClones' = PushIfFound(exactClones,
                              findExactClones(content1, content2, file1, file2))
                       /\ nearClones' = PushIfFound(nearClones,
                              findNearClones(content1, content2, file1, file2))
                       /\ functionalClones' = PushIfFound(functionalClones,
                              findFunctionalClones(content1, content2, file1, file2))
              ELSE UNCHANGED <<exactClones, nearClones, functionalClones>>
           /\ ci' = next[1]
           /\ cj' = next[2]
    /\ UNCHANGED <<fsys, cloneFilePaths, clonePc, cloneResult, scanVars, metricVars, duplicationVars, codebaseVars, toolVars>>

\* after the loops: metrics, opportunities and the returned value (lines 2081-2097)
FinishClones ==
    /\ clonePc = "pairs"
    /\ ci >= Len(cloneFilePaths)
    /\ cloneResult' =
          [status |-> "returned",
           exactClones |-> exactClones,
           nearClones |-> nearClones,
           functionalClones |-> functionalClones,
           cloneMetrics |-> calculateCloneMetrics(exactClones, nearClones,
                                                  functionalClones, cloneFilePaths),
           refactoringOpportunities |->
               identifyRefactoringOpportunities(exactClones, nearClones, functionalClones)]
    /\ clonePc' = "done"
    /\ UNCHANGED <<fsys, cloneFilePaths, ci, cj, exactClones, nearClones, functionalClones,
                   scanVars, metricVars, duplicationVars, codebaseVars, toolVars>>

-----------------------------------------------------------------------------
(* The inputs of clone detection *)

ClonePaths == {"a.js", "b.js"}

CloneBase == Line(0, <<"aaa", "bbb", "ccc", "ddd">>)
CloneIndented == Line(2, <<"aaa", "bbb", "ccc", "ddd">>)
CloneSimilar == Line(0, <<"aaa", "bbb", "ccc", "eee">>)
CloneOther == Line(0, <<"zzz">>)
CloneFunction == Line(0, <<"function", "foo(){", "}">>)

CloneVariants == {CloneIndented, CloneSimilar, CloneOther, CloneFunction}

\* n lines, all CloneBase but line p (if any), which is alt
CloneFile(n, p, alt) == [k \in 1..n |-> IF k = p THEN alt ELSE CloneBase]

CloneContents ==
    {File(CloneFile(n, p, alt)) : n \in 1..MaxCloneLines, p \in 0..MaxCloneLines,
                                  alt \in CloneVariants}

\* files of CloneBase lines, but for a function definition on line 1 of some
PlainContents ==
    {File(CloneFile(n, p, CloneFunction)) : n \in 1..MaxCloneLines, p \in 0..1}

ClonesIdle ==
    /\ cloneFilePaths = <<>>
    /\ clonePc = "idle"
    /\ ci = 0
    /\ cj = 0
    /\ exactClones = <<>>
    /\ nearClones = <<>>
    /\ functionalClones = <<>>
    /\ cloneResult = NoResult

ScanIdle ==
    /\ scanPath = ""
    /\ scanResult = NoResult

MetricIdle ==
    /\ metricLines = <<>>
    /\ metricResult = NoResult

DuplicationIdle ==
    /\ duplicationLines = <<>>
    /\ duplicationResult = NoResult
    /\ duplicationBefore = NoResult

NoRequest == [name |-> "none"]

CodebaseIdle ==
    /\ codebasePath = ""
    /\ codebaseFilePaths = <<>>
    /\ filePc = "idle"
    /\ fileIndex = 0
    /\ foundEntities = <<>>
    /\ foundRelationships = <<>>
    /\ foundVulnerabilities = <<>>
    /\ sumQualityMetrics = ZeroMetrics
    /\ sessionBase = ""
    /\ reports = <<>>
    /\ latePending = <<>>
    /\ analysisResult = NoResult
    /\ previousRun = NoResult

ToolIdle ==
    /\ toolPc = "idle"
    /\ toolRequest = NoRequest
    /\ toolResponse = NoResult

\* a.js is any file of the family, b.js a plain one; either may be unreadable
InitClone ==
    /\ fsys \in {[p \in ClonePaths |-> IF p = "a.js" THEN a ELSE b] :
                    a \in CloneContents \cup {Unreadable},
                    b \in PlainContents \cup {Unreadable}}
    /\ ClonesIdle
    /\ ScanIdle
    /\ MetricIdle
    /\ DuplicationIdle
    /\ CodebaseIdle
    /\ ToolIdle

NextClone ==
    \/ \E filePaths \in Lists(ClonePaths, MaxCloneFiles) : AnalyzeCodeClones(filePaths)
    \/ ComparePair
    \/ FinishClones

SpecClone == InitClone /\ [][NextClone]_vars

\* Two files of ten lines each, line k of one equal to line k of the other
\* (the second file with or without indentation)
TenLineTexts == {CloneFile(10, p, alt) : p \in 0..10, alt \in CloneVariants}

Indented(lines) == [k \in DOMAIN lines |-> Line(2, lines[k].words)]

InitTenLines ==
    /\ \E t \in TenLineTexts :
          fsys \in {[p \in ClonePaths |-> IF p = "a.js" THEN File(t) ELSE File(u)] :
                       u \in {t, Indented(t)}}
    /\ ClonesIdle
    /\ ScanIdle
    /\ MetricIdle
    /\ DuplicationIdle
    /\ CodebaseIdle
    /\ ToolIdle

SpecTenLines == InitTenLines /\ [][NextClone]_vars

\* Up to MaxSharedFiles list positions over three files that hold the same lines
\* (b.js with or without indentation, or with another last line; b.cpp may be
\* unreadable)
SharedPaths == {"a.js", "b.js", "b.cpp"}

LastLineSimilar(lines) ==
    [k \in DOMAIN lines |-> IF k = Len(lines) THEN CloneSimilar ELSE lines[k]]

InitSharedLines ==
    /\ \E t \in PlainContents :
          fsys \in {[p \in SharedPaths |->
                        CASE p = "a.js" -> t
                          [] p = "b.js" -> u
                          [] OTHER -> v] :
                       u \in {t, File(Indented(t.lines)), File(LastLineSimilar(t.lines))},
                       v \in {t, Unreadable}}
    /\ ClonesIdle
    /\ ScanIdle
    /\ MetricIdle
    /\ DuplicationIdle
    /\ CodebaseIdle
    /\ ToolIdle

NextSharedLines ==
    \/ \E filePaths \in Lists(SharedPaths, MaxSharedFiles) : AnalyzeCodeClones(filePaths)
    \/ ComparePair
    \/ FinishClones

SpecSharedLines == InitSharedLines /\ [][NextSharedLines]_vars

-----------------------------------------------------------------------------
(* Claims about clone detection *)

\* C1: every clone in exactClones has similarity exactly 100 and every clone
\* in nearClones has 80 <= similarity < 100, while the pairs are compared and
\* in the value analyzeCodeClones returns.
C1_SimilarityRanges ==
    /\ \A k \in DOMAIN exactClones : exactClones[k].similarity = 100 * Milli
    /\ \A k \in DOMAIN nearClones :
          /\ nearClones[k].similarity >= 80 * Milli
          /\ nearClones[k].similarity < 100 * Milli
    /\ cloneResult # NoResult =>
          /\ \A k \in DOMAIN cloneResult.exactClones :
                cloneResult.exactClones[k].similarity = 100 * Milli
          /\ \A k \in DOMAIN cloneResult.nearClones :
                /\ cloneResult.nearClones[k].similarity >= 80 * Milli
                /\ cloneResult.nearClones[k].similarity < 100 * Milli

\* C1 witness: a call has returned an exact clone and a near clone whose
\* similarity is strictly between 80 and 100.
C1_Witness ==
    /\ cloneResult # NoResult
    /\ Len(cloneResult.exactClones) > 0
    /\ \E k \in DOMAIN cloneResult.nearClones :
          cloneResult.nearClones[k].similarity > 80 * Milli

\* the two files of a call are ten lines each, equal line by line after trimming
SameTenLines(file1, file2) ==
    /\ Readable(file1) /\ Readable(file2)
    /\ Len(fsys[file1].lines) = 10
    /\ Len(fsys[file2].lines) = 10
    /\ \A k \in 1..10 : Trim(fsys[file1].lines[k]) = Trim(fsys[file2].lines[k])

TenLineCallReturned ==
    /\ cloneResult # NoResult
    /\ Len(cloneFilePaths) = 2
    /\ SameTenLines(cloneFilePaths[1], cloneFilePaths[2])

\* C2 as claimed: clone detection on two files that consist of the same 10
\* lines returns exactly one exact clone, of length 10, similarity 100 and
\* risk "medium".
C2_TenLinesMedium ==
    TenLineCallReturned =>
        /\ Len(cloneResult.exactClones) = 1
        /\ cloneResult.exactClones[1].length = 10
        /\ cloneResult.exactClones[1].similarity = 100 * Milli
        /\ cloneResult.exactClones[1].risk = "medium"

\* C2 as amended: clone detection on two files that consist of the same 10
\* lines returns exactly one exact clone, of length 10, similarity 100 and
\* risk "low" (medium starts above 10 lines).
C2_TenLinesLow ==
    TenLineCallReturned =>
        /\ Len(cloneResult.exactClones) = 1
        /\ cloneResult.exactClones[1].length = 10
        /\ cloneResult.exactClones[1].startLine = 1
        /\ cloneResult.exactClones[1].endLine = 10
        /\ cloneResult.exactClones[1].similarity = 100 * Milli
        /\ cloneResult.exactClones[1].risk = "low"

\* C2 witness: a call on two different paths holding the same ten lines has returned.
C2_Witness ==
    /\ TenLineCallReturned
    /\ cloneFilePaths[1] # cloneFilePaths[2]
    /\ Len(cloneResult.exactClones) = 1

\* C12: the duplicationPercentage of the clone metrics analyzeCodeClones returns
\* is between 0 and 100, also for three and more files that share their lines.
C12_DuplicationInRange ==
    cloneResult # NoResult =>
        /\ 0 <= cloneResult.cloneMetrics.duplicationPercentage
        /\ cloneResult.cloneMetrics.duplicationPercentage <= 100 * Milli

\* the pairs of list positions i < j of a list of n files (1-based), in the order
\* of the two loops
PairsInOrder(n) ==
    LET P == {q \in (1..n) \X (1..n) : q[1] < q[2]}
        Rank(q) == Cardinality({r \in P : r[1] < q[1] \/ (r[1] = q[1] /\ r[2] <= q[2])})
    IN  [m \in 1..Cardinality(P) |-> CHOOSE q \in P : Rank(q) = m]

\* the pairs the loops have passed when they stand at the 0-based positions (i, j)
PairsPassed(n, i, j) ==
    SelectSeq(PairsInOrder(n),
              LAMBDA q : q[1] < i + 1 \/ (q[1] = i + 1 /\ q[2] < j + 1))

\* the clones can be assigned to the pairs in order, at most one to a pair, each
\* clone with the first file of its pair as primaryFile and the second as its
\* only clone file
RECURSIVE OnePerPair(_, _, _)
OnePerPair(clones, pairs, paths) ==
    IF clones = <<>> THEN TRUE
    ELSE IF pairs = <<>> THEN FALSE
    ELSE IF /\ Head(clones).primaryFile = paths[Head(pairs)[1]]
            /\ Head(clones).cloneFiles = <<paths[Head(pairs)[2]]>>
         THEN OnePerPair(Tail(clones), Tail(pairs), paths)
         ELSE OnePerPair(clones, Tail(pairs), paths)

\* C13: analyzeCodeClones keeps at most one exact, one near and one functional
\* clone for each pair of list positions i < j, with primaryFile = filePaths[i]
\* and cloneFiles = [filePaths[j]]; each of the three lists of the returned value
\* has at most F(F-1)/2 entries for F files.
C13_OneClonePerPair ==
    LET F == Len(cloneFilePaths)
        passed == PairsPassed(F, ci, cj)
    IN  /\ clonePc = "pairs" =>
              /\ OnePerPair(exactClones, passed, cloneFilePaths)
              /\ OnePerPair(nearClones, passed, cloneFilePaths)
              /\ OnePerPair(functionalClones, passed, cloneFilePaths)
        /\ cloneResult # NoResult =>
              /\ OnePerPair(cloneResult.exactClones, PairsInOrder(F), cloneFilePaths)
              /\ OnePerPair(cloneResult.nearClones, PairsInOrder(F), cloneFilePaths)
              /\ OnePerPair(cloneResult.functionalClones, PairsInOrder(F), cloneFilePaths)
              /\ Len(cloneResult.exactClones) <= (F * (F - 1)) \div 2
              /\ Len(cloneResult.nearClones) <= (F * (F - 1)) \div 2
              /\ Len(cloneResult.functionalClones) <= (F * (F - 1)) \div 2

\* C13 witness: a call on three different files has returned one exact clone for
\* each of the three pairs, a near clone and a functional clone.
C13_Witness ==
    /\ cloneResult # NoResult
    /\ Len(cloneFilePaths) = 3
    /\ Cardinality(Range(cloneFilePaths)) = 3
    /\ Len(cloneResult.exactClones) = 3
    /\ Len(cloneResult.nearClones) > 0
    /\ Len(cloneResult.functionalClones) > 0

-----------------------------------------------------------------------------
(* Runs of equal lines: clone detection on files with several runs *)

\* files of CloneBase lines with one other line: runs of 5 lines and more
\* before and after it
RunTexts ==
    UNION {{CloneFile(n, p, alt) : p \in {0, 1, ExactMinLength + 1, n},
                                  alt \in {CloneOther, CloneIndented}} :
              n \in {ExactMinLength, ExactMinLength + 1, MaxRunLines - 1, MaxRunLines}}

InitRuns ==
    /\ fsys \in {[p \in ClonePaths |-> IF p = "a.js" THEN File(a) ELSE File(b)] :
                    a \in RunTexts, b \in RunTexts}
    /\ ClonesIdle
    /\ ScanIdle
    /\ MetricIdle
    /\ DuplicationIdle
    /\ CodebaseIdle
    /\ ToolIdle

SpecRuns == InitRuns /\ [][NextClone]_vars

\* the number of consecutive line pairs from the 0-based start pair (i, j) on
\* that are equal after trimming
RECURSIVE RunLength(_, _, _, _)
RunLength(lines1, lines2, i, j) ==
    IF i >= Len(lines1) \/ j >= Len(lines2) THEN 0
    ELSE IF Trim(lines1[i + 1]) # Trim(lines2[j + 1]) THEN 0
    ELSE 1 + RunLength(lines1, lines2, i + 1, j + 1)

StartPairs(lines1, lines2) == (0..(Len(lines1) - 1)) \X (0..(Len(lines2) - 1))

\* the run length at every start pair
Runs(lines1, lines2) ==
    [q \in StartPairs(lines1, lines2) |-> RunLength(lines1, lines2, q[1], q[2])]

\* q comes before r in (i, then j) order
ScannedBefore(q, r) == q[1] < r[1] \/ (q[1] = r[1] /\ q[2] < r[2])

LongestRun(runs) ==
    LET lengths == Range(runs)
    IN  CHOOSE x \in lengths : \A y \in lengths : y <= x

\* the start pairs of the longest runs
LongestStarts(runs) ==
    LET longest == LongestRun(runs)
    IN  {q \in DOMAIN runs : runs[q] = longest}

FirstLongest(runs) ==
    LET starts == LongestStarts(runs)
    IN  CHOOSE q \in starts : \A r \in starts : ~ScannedBefore(r, q)

\* a call on two readable files has returned
TwoFilesCompared ==
    /\ cloneResult # NoResult
    /\ Len(cloneFilePaths) = 2
    /\ Readable(cloneFilePaths[1]) /\ Readable(cloneFilePaths[2])

\* C22: findExactClones returns a clone if and only if some start pair begins a
\* run of at least 5 lines equal after trimming; the clone has the length of the
\* longest run over all start pairs and is the first run of that length in
\* (i, then j) scan order.
C22_LongestRunFirst ==
    TwoFilesCompared =>
        LET lines1 == fsys[cloneFilePaths[1]].lines
            runs == Runs(lines1, fsys[cloneFilePaths[2]].lines)
            longest == LongestRun(runs)
            first == FirstLongest(runs)
            found == cloneResult.exactClones
        IN  /\ (found # <<>>) <=> (longest >= 5)
            /\ longest >= 5 =>
                  /\ Len(found) = 1
                  /\ found[1].length = longest
                  /\ found[1].startLine = first[1] + 1
                  /\ found[1].cloneContent =
                        SubSeq(lines1, first[1] + 1, first[1] + longest)

\* C22 witness: the returned clone does not start on line 1; a shorter run of 5
\* lines or more starts before it in scan order, and another run of the same
\* length starts on a later line of the first file.
C22_Witness ==
    /\ TwoFilesCompared
    /\ cloneResult.exactClones # <<>>
    /\ LET runs == Runs(fsys[cloneFilePaths[1]].lines, fsys[cloneFilePaths[2]].lines)
           first == FirstLongest(runs)
       IN  /\ cloneResult.exactClones[1].startLine > 1
           /\ \E q \in DOMAIN runs : ScannedBefore(q, first) /\ runs[q] >= 5
           /\ \E r \in LongestStarts(runs) : r[1] > first[1]

-----------------------------------------------------------------------------
(* Similar lines: clone detection on files of lines of ten words *)

TenWords == <<"aaa", "bbb", "ccc", "ddd", "eee", "zzz", "ggg", "hhh", "iii", "jjj">>

\* a line of ten words of three characters that has its first c words in common
\* with TenWords
SharedWords(c) ==
    Line(0, [k \in 1..10 |-> IF k <= c THEN TenWords[k] ELSE "www"])

\* n lines of TenWords, but line p (if any), which shares c words with them
NearFile(n, p, c) == [k \in 1..n |-> IF k = p THEN SharedWords(c) ELSE SharedWords(10)]

NearTexts ==
    UNION {{NearFile(n, p, c) : p \in 0..n, c \in {6, 7, 8}} : n \in NearMinLength..MaxNearLines}

InitNear ==
    /\ fsys \in {[p \in ClonePaths |-> IF p = "a.js" THEN File(a) ELSE File(b)] :
                    a \in NearTexts, b \in NearTexts}
    /\ ClonesIdle
    /\ ScanIdle
    /\ MetricIdle
    /\ DuplicationIdle
    /\ CodebaseIdle
    /\ ToolIdle

SpecNear == InitNear /\ [][NextClone]_vars

\* a pair of trimmed lines extends a match window: the lines are identical, or
\* their score is at least 70 (inclusive) or above 70 (not inclusive)
Extends(line1, line2, inclusive) ==
    \/ line1 = line2
    \/ calculateLineSimilarity(line1, line2) > 70 * Milli
    \/ inclusive /\ calculateLineSimilarity(line1, line2) = 70 * Milli

\* the scores of the line pairs of the match window that starts at (i, j)
RECURSIVE WindowScores(_, _, _, _, _)
WindowScores(lines1, lines2, i, j, inclusive) ==
    IF i >= Len(lines1) \/ j >= Len(lines2) THEN <<>>
    ELSE IF ~Extends(Trim(lines1[i + 1]), Trim(lines2[j + 1]), inclusive) THEN <<>>
    ELSE <<calculateLineSimilarity(Trim(lines1[i + 1]), Trim(lines2[j + 1]))>>
         \o WindowScores(lines1, lines2, i + 1, j + 1, inclusive)

\* the near clones found are those of the match windows: there is one if and
\* only if some window has 3 lines or more and an average score from 80 to
\* below 100, and it has the largest such average and the length of a window
\* with that average
NearClonesOfWindows(inclusive) ==
    TwoFilesCompared =>
        LET lines1 == fsys[cloneFilePaths[1]].lines
            lines2 == fsys[cloneFilePaths[2]].lines
            scores == [q \in StartPairs(lines1, lines2) |->
                          WindowScores(lines1, lines2, q[1], q[2], inclusive)]
            average == [q \in DOMAIN scores |->
                           IF scores[q] = <<>> THEN 0
                           ELSE SumSeq(scores[q]) \div Len(scores[q])]
            accepted == {q \in DOMAIN scores :
                            /\ Len(scores[q]) >= 3
                            /\ average[q] >= 80 * Milli
                            /\ average[q] < 100 * Milli}
            found == cloneResult.nearClones
        IN  /\ (found # <<>>) <=> (accepted # {})
            /\ found # <<>> =>
                  /\ \A q \in accepted : average[q] <= found[1].similarity
                  /\ \E q \in accepted :
                        /\ average[q] = found[1].similarity
                        /\ Len(scores[q]) = found[1].length
                        /\ q[1] + 1 = found[1].startLine

\* C23: in near-clone detection a pair of different lines extends the match
\* window exactly when its score is at least 70; a pair that scores exactly 70
\* (7 common words of 10) extends the window.
C23_SeventyExtends == NearClonesOfWindows(TRUE)

\* a pair of different lines extends the match window exactly when its score
\* is above 70
AboveSeventyExtends == NearClonesOfWindows(FALSE)

-----------------------------------------------------------------------------
(* Function spans: clone detection on files of one or two functions *)

\* a function of three lines
FunctionBlock(name, body) ==
    <<Line(0, <<"function", name>>), Line(2, body), Line(0, <<"}">>)>>

FunctionBlocks ==
    {FunctionBlock(name, body) : name \in {"foo(){", "bar(){"},
                                 body \in {<<"aaa", "bbb">>, <<"zzz", "ddd">>}}

FunctionTexts == FunctionBlocks \cup {x \o y : x \in FunctionBlocks, y \in FunctionBlocks}

InitFunctions ==
    /\ fsys \in {[p \in ClonePaths |-> IF p = "a.js" THEN File(a) ELSE File(b)] :
                    a \in FunctionTexts, b \in FunctionTexts}
    /\ ClonesIdle
    /\ ScanIdle
    /\ MetricIdle
    /\ DuplicationIdle
    /\ CodebaseIdle
    /\ ToolIdle

SpecFunctions == InitFunctions /\ [][NextClone]_vars

\* the pairs of span positions (a in file 1, b in file 2) whose similarity is
\* at least 75
ReachingPairs(patterns1, patterns2) ==
    {q \in (DOMAIN patterns1) \X (DOMAIN patterns2) :
        LET similarity == calculateFunctionSimilarity(patterns1[q[1]], patterns2[q[2]])
        IN  similarity.kind = "fin" /\ similarity.v >= 75 * Milli}

\* C24: findFunctionalClones returns the first span pair whose similarity is at
\* least 75, spans of file 1 in the outer loop and spans of file 2 in the inner
\* one, even when a later pair scores higher, and nothing when no pair reaches 75.
C24_FirstPairReturned ==
    TwoFilesCompared =>
        LET patterns1 == extractFunctionPatterns(fsys[cloneFilePaths[1]].lines)
            patterns2 == extractFunctionPatterns(fsys[cloneFilePaths[2]].lines)
            reaching == ReachingPairs(patterns1, patterns2)
            found == cloneResult.functionalClones
        IN  /\ (found = <<>>) <=> (reaching = {})
            /\ reaching # {} =>
                  LET first == CHOOSE q \in reaching :
                                   \A r \in reaching : ~ScannedBefore(r, q)
                  IN  /\ Len(found) = 1
                      /\ found[1].startLine = patterns1[first[1]].startLine
                      /\ found[1].endLine = patterns1[first[1]].endLine
                      /\ found[1].cloneContent = patterns1[first[1]].content
                      /\ found[1].similarity =
                            calculateFunctionSimilarity(patterns1[first[1]],
                                                        patterns2[first[2]]).v

\* C24 witness: the first span pair is below 75, the returned clone is of a
\* later pair, and a pair after that one scores higher than the returned clone.
C24_Witness ==
    /\ TwoFilesCompared
    /\ cloneResult.functionalClones # <<>>
    /\ LET patterns1 == extractFunctionPatterns(fsys[cloneFilePaths[1]].lines)
           patterns2 == extractFunctionPatterns(fsys[cloneFilePaths[2]].lines)
           reaching == ReachingPairs(patterns1, patterns2)
       IN  /\ <<1, 1>> \notin reaching
           /\ \E r \in reaching :
                 calculateFunctionSimilarity(patterns1[r[1]], patterns2[r[2]]).v >
                     cloneResult.functionalClones[1].similarity

\* a call on two files without a span pair that reaches 75 has returned
NoPairReaches ==
    /\ TwoFilesCompared
    /\ cloneResult.functionalClones = <<>>
    /\ extractFunctionPatterns(fsys[cloneFilePaths[1]].lines) # <<>>
    /\ extractFunctionPatterns(fsys[cloneFilePaths[2]].lines) # <<>>

\* the length of a clone is the number of lines of its span and of its content
SpanIsLength(clone) ==
    /\ clone.length = clone.endLine - clone.startLine + 1
    /\ Len(clone.cloneContent) = clone.length

\* C30: for every clone of every kind, length = endLine - startLine + 1 and
\* cloneContent has exactly length lines, so totalDuplicatedLines of the clone
\* metrics is the sum of the span sizes of all clones.
C30_LengthIsSpan ==
    cloneResult # NoResult =>
        LET allClones == cloneResult.exactClones \o cloneResult.nearClones
                         \o cloneResult.functionalClones
        IN  /\ \A k \in DOMAIN allClones : SpanIsLength(allClones[k])
            /\ cloneResult.cloneMetrics.totalDuplicatedLines =
                  SumSeq([k \in DOMAIN allClones |->
                             allClones[k].endLine - allClones[k].startLine + 1])

\* the same for the exact and the near clones alone
ExactAndNearSpans ==
    cloneResult # NoResult =>
        /\ \A k \in DOMAIN cloneResult.exactClones : SpanIsLength(cloneResult.exactClones[k])
        /\ \A k \in DOMAIN cloneResult.nearClones : SpanIsLength(cloneResult.nearClones[k])

-----------------------------------------------------------------------------
(* Refactoring opportunities: clone detection on three files of functions *)

\* a function of three lines and n lines after it, the last of them CloneBase
\* or CloneSimilar
FunctionAndLines(name, body, n, last) ==
    FunctionBlock(name, body) \o CloneFile(n, n, last)

OpportunityContents(path) ==
    CASE path = "a.js" ->
            {FunctionAndLines("foo(){", <<"aaa", "bbb">>, 8, CloneBase),
             FunctionAndLines("foo(){", <<"aaa", "bbb">>, 7, CloneBase),
             FunctionBlock("bar(){", <<"aaa", "bbb">>)
                 \o FunctionBlock("foo(){", <<"zzz", "ddd">>)}
      [] path = "b.js" ->
            {FunctionAndLines("foo(){", <<"aaa", "bbb">>, 8, CloneBase),
             FunctionAndLines("bar(){", <<"aaa", "bbb">>, 8, CloneSimilar),
             FunctionAndLines("bar(){", <<"aaa", "bbb">>, 7, CloneBase)}
      [] OTHER ->
            {FunctionAndLines("foo(){", <<"aaa", "bbb">>, 8, CloneBase),
             FunctionAndLines("foo(){", <<"zzz", "ddd">>, 7, CloneBase)}

InitOpportunities ==
    /\ fsys \in {[p \in SharedPaths |-> File(IF p = "a.js" THEN a
                                             ELSE IF p = "b.js" THEN b ELSE c)] :
                    a \in OpportunityContents("a.js"),
                    b \in OpportunityContents("b.js"),
                    c \in OpportunityContents("b.cpp")}
    /\ ClonesIdle
    /\ ScanIdle
    /\ MetricIdle
    /\ DuplicationIdle
    /\ CodebaseIdle
    /\ ToolIdle

NextOpportunities ==
    \/ \E filePaths \in Lists(SharedPaths, MaxOpportunityFiles) :
          AnalyzeCodeClones(filePaths)
    \/ ComparePair
    \/ FinishClones

SpecOpportunities == InitOpportunities /\ [][NextOpportunities]_vars

\* the number of opportunities of one type
OpportunitiesOf(opportunities, type) ==
    Len(SelectSeq(opportunities, LAMBDA o : o.type = type))

\* the number of functional clones of a returned value with similarity above 80
SignificantClones ==
    Len(SelectSeq(cloneResult.functionalClones, LAMBDA c : c.similarity > 80 * Milli))

\* C25: identifyRefactoringOpportunities emits one extract_method opportunity if
\* and only if some exact clone is longer than 10 lines, one strategy_pattern
\* opportunity if and only if more than two functional clones have similarity
\* above 80, and no other opportunity, whatever the near clones are.
C25_Opportunities ==
    cloneResult # NoResult =>
        LET opportunities == cloneResult.refactoringOpportunities
        IN  /\ OpportunitiesOf(opportunities, "extract_method") =
                  (IF \E k \in DOMAIN cloneResult.exactClones :
                         cloneResult.exactClones[k].length > 10
                   THEN 1 ELSE 0)
            /\ OpportunitiesOf(opportunities, "strategy_pattern") =
                  (IF SignificantClones > 2 THEN 1 ELSE 0)
            /\ \A k \in DOMAIN opportunities :
                  opportunities[k].type \in {"extract_method", "strategy_pattern"}

\* C25 witness: a call has returned both opportunities, with an exact clone of
\* 10 lines or fewer and a near clone among its clones.
C25_Witness ==
    /\ cloneResult # NoResult
    /\ Len(cloneResult.refactoringOpportunities) = 2
    /\ cloneResult.nearClones # <<>>
    /\ \E k \in DOMAIN cloneResult.exactClones : cloneResult.exactClones[k].length <= 10

\* a call has returned an exact clone of exactly 10 lines and no opportunity
NoOpportunity ==
    /\ cloneResult # NoResult
    /\ cloneResult.refactoringOpportunities = <<>>
    /\ \E k \in DOMAIN cloneResult.exactClones : cloneResult.exactClones[k].length = 10

\* a call has returned exactly two functional clones above 80 and, with them,
\* no strategy_pattern opportunity
TwoSignificantClones ==
    /\ cloneResult # NoResult
    /\ SignificantClones = 2
    /\ OpportunitiesOf(cloneResult.refactoringOpportunities, "strategy_pattern") = 0

-----------------------------------------------------------------------------
(* analyzeSecurity applied to one file *)

\* the call engine.analyzeSecurity(content, filePath) and its return
AnalyzeSecurity(filePath) ==
    /\ scanPath = ""
    /\ Readable(filePath)
    /\ scanPath' = filePath
    /\ scanResult' = [status |-> "returned",
                      vulnerabilities |-> analyzeSecurity(fsys[filePath].lines, filePath)]
    /\ UNCHANGED <<fsys, cloneVars, metricVars, duplicationVars, codebaseVars, toolVars>>

SecurityLines ==
    {Line(0, <<"aaa">>),
     Line(0, <<"SELECT+", "pickle(">>),
     Line(0, <<"aaa", "bbb", "eval=">>),
     Line(2, <<"eval=">>),
     Line(0, <<"password=", "Math.random", "==">>),
     Line(0, <<"Math.random", "PASSWORD=">>),
     Line(0, <<"$query+", "pickle(", "SELECT+">>)}

SecurityContents == {File(t) : t \in UNION {[1..n -> SecurityLines] : n \in 1..MaxSecurityLines}}

InitSecurity ==
    /\ fsys \in [{"a.js"} -> SecurityContents]
    /\ ClonesIdle
    /\ ScanIdle
    /\ MetricIdle
    /\ DuplicationIdle
    /\ CodebaseIdle
    /\ ToolIdle

NextSecurity == \E filePath \in DOMAIN fsys : AnalyzeSecurity(filePath)

SpecSecurity == InitSecurity /\ [][NextSecurity]_vars

\* the findings of a scan of line k alone, reported at line k
AloneAt(filePath, lines, k) ==
    LET alone == analyzeSecurity(<<lines[k]>>, filePath)
    IN  [n \in DOMAIN alone |->
            [alone[n] EXCEPT !.location = [@ EXCEPT !.line = k]]]

\* C3: the findings of analyzeSecurity on a file are, in order, the findings of
\* scanning each of its lines alone: no line's scan depends on another line.
C3_LinesIndependent ==
    scanResult # NoResult =>
        scanResult.vulnerabilities =
            Flatten([k \in DOMAIN fsys[scanPath].lines |->
                        AloneAt(scanPath, fsys[scanPath].lines, k)])

\* C3 witness: a rule has matched on one line and again, at a smaller column,
\* on the line after it, and both matches are reported.
C3_Witness ==
    /\ scanResult # NoResult
    /\ \E a, b \in DOMAIN scanResult.vulnerabilities :
          /\ scanResult.vulnerabilities[a].type = scanResult.vulnerabilities[b].type
          /\ scanResult.vulnerabilities[b].location.line =
                scanResult.vulnerabilities[a].location.line + 1
          /\ scanResult.vulnerabilities[b].location.column <
                scanResult.vulnerabilities[a].location.column

\* the severity the specification gives each rule
ClaimedSeverity(type) ==
    CASE type = "sql_injection" -> "critical"
      [] type = "xss" -> "high"
      [] type = "secrecy_leak" -> "critical"
      [] type = "insecure_random" -> "medium"
      [] type = "unsafe_deserialize" -> "critical"

\* C4: every finding's severity is the one of its rule: sql_injection critical,
\* xss high, secrecy_leak critical, insecure_random medium, unsafe_deserialize
\* critical, on every line and next to any other finding.
C4_SeverityByRule ==
    scanResult # NoResult =>
        \A k \in DOMAIN scanResult.vulnerabilities :
            scanResult.vulnerabilities[k].severity =
                ClaimedSeverity(scanResult.vulnerabilities[k].type)

\* C4 witness: one scan reports findings of all five rules, two of them on one line.
C4_Witness ==
    /\ scanResult # NoResult
    /\ {scanResult.vulnerabilities[k].type : k \in DOMAIN scanResult.vulnerabilities}
          = Range(PatternNames)
    /\ \E a, b \in DOMAIN scanResult.vulnerabilities :
          /\ a # b
          /\ scanResult.vulnerabilities[a].location.line =
                scanResult.vulnerabilities[b].location.line


-----------------------------------------------------------------------------
(* calculateMaintainabilityIndex applied to a list of lines *)

CalculateMaintainabilityIndex ==
    /\ metricResult = NoResult
    /\ metricResult' = [status |-> "returned",
                        value |-> calculateMaintainabilityIndex(metricLines)]
    /\ UNCHANGED <<fsys, cloneVars, scanVars, metricLines, duplicationVars, codebaseVars,
                   toolVars>>

MetricLineKinds ==
    {Line(0, <<"aaa">>), Line(0, <<"#", "aaa">>), Line(2, <<"//", "aaa">>),
     Line(0, <<"aaa", "#">>), Line(0, <<>>)}

InitMetric ==
    /\ fsys = [path \in {"a.js"} |-> Unreadable]
    /\ ClonesIdle
    /\ ScanIdle
    /\ metricLines \in UNION {[1..n -> MetricLineKinds] : n \in 0..MaxMetricLines}
    /\ metricResult = NoResult
    /\ DuplicationIdle
    /\ CodebaseIdle
    /\ ToolIdle

NextMetric == CalculateMaintainabilityIndex

SpecMetric == InitMetric /\ [][NextMetric]_vars

\* C8: calculateMaintainabilityIndex returns a number between 0 and 171 for every
\* list of lines, and exactly 171 for the empty list, never NaN.
C8_IndexClamped ==
    metricResult # NoResult =>
        /\ metricResult.value.kind = "fin"
        /\ 0 <= metricResult.value.v
        /\ metricResult.value.v <= 171 * Milli
        /\ (Len(metricLines) = 0 => metricResult.value = Fin(171 * Milli))

\* C8 witness: the function has returned for the empty list, and the value is 171.
C8_Witness ==
    /\ metricResult # NoResult
    /\ metricLines = <<>>
    /\ metricResult.value = Fin(171 * Milli)


-----------------------------------------------------------------------------
(* calculateDuplication applied to the lines of one file, and again after a copy
   of one of the lines was appended to the file *)

CalculateDuplication ==
    /\ duplicationResult = NoResult
    /\ duplicationResult' = [status |-> "returned",
                             value |-> calculateDuplication(duplicationLines)]
    /\ UNCHANGED <<fsys, cloneVars, scanVars, metricVars, duplicationLines,
                   duplicationBefore, codebaseVars, toolVars>>

\* the file gets a copy of its line k as a new last line
AppendCopy(k) ==
    /\ duplicationResult # NoResult
    /\ Len(duplicationLines) <= MaxDuplicationLines
    /\ duplicationBefore' = [status |-> "returned", lines |-> duplicationLines,
                             copied |-> k, value |-> duplicationResult.value]
    /\ duplicationLines' = Append(duplicationLines, duplicationLines[k])
    /\ duplicationResult' = NoResult
    /\ UNCHANGED <<fsys, cloneVars, scanVars, metricVars, codebaseVars, toolVars>>

\* lines of 11 characters (one of them also indented), of 10 and of 3
DuplicationLineKinds ==
    {Line(0, <<"aaa", "bbb", "ccc">>), Line(2, <<"aaa", "bbb", "ccc">>),
     Line(0, <<"aaa", "bbb", "ddd">>), Line(0, <<"aaa", "bbb", "if">>),
     Line(0, <<"aaa">>)}

InitDuplication ==
    /\ fsys = [path \in {"a.js"} |-> Unreadable]
    /\ ClonesIdle
    /\ ScanIdle
    /\ MetricIdle
    /\ duplicationLines \in
          UNION {[1..n -> DuplicationLineKinds] : n \in 1..MaxDuplicationLines}
    /\ duplicationResult = NoResult
    /\ duplicationBefore = NoResult
    /\ CodebaseIdle
    /\ ToolIdle

NextDuplication ==
    \/ CalculateDuplication
    \/ \E k \in DOMAIN duplicationLines : AppendCopy(k)

SpecDuplication == InitDuplication /\ [][NextDuplication]_vars

\* a trimmed line takes part in the comparison: it has 10 characters or more
Qualifying(line) == LineLength(Trim(line)) >= 10

\* no two qualifying lines are equal after trimming
NoEqualLines(lines) ==
    \A i \in DOMAIN lines : \A j \in DOMAIN lines :
        (i # j /\ Qualifying(lines[i]) /\ Qualifying(lines[j]))
            => Trim(lines[i]) # Trim(lines[j])

\* C18: the duplication percentage of a file is 0 when no two of its qualifying
\* trimmed lines (10 characters or more) are equal, and it does not go down when
\* a copy of a qualifying line of the file is appended to the file.
C18_DuplicationMonotone ==
    duplicationResult # NoResult =>
        /\ NoEqualLines(duplicationLines) => duplicationResult.value = 0
        /\ (/\ duplicationBefore # NoResult
            /\ Qualifying(duplicationBefore.lines[duplicationBefore.copied]))
               => duplicationResult.value >= duplicationBefore.value

\* a trimmed line the code compares: it has more than 10 characters
LongerThanTen(line) == LineLength(Trim(line)) > DuplicationMinLength

\* the same with the lines the code compares: the percentage is 0 when no two
\* trimmed lines of more than 10 characters are equal, and it does not go down
\* when a copy of a line of more than 10 characters is appended
DuplicationMonotoneAboveTen ==
    duplicationResult # NoResult =>
        /\ (\A i \in DOMAIN duplicationLines : \A j \in DOMAIN duplicationLines :
               (i # j /\ LongerThanTen(duplicationLines[i])
                      /\ LongerThanTen(duplicationLines[j]))
                   => Trim(duplicationLines[i]) # Trim(duplicationLines[j]))
              => duplicationResult.value = 0
        /\ (/\ duplicationBefore # NoResult
            /\ LongerThanTen(duplicationBefore.lines[duplicationBefore.copied]))
               => duplicationResult.value >= duplicationBefore.value

\* the lines of a file that are equal, after trimming, to another line of it
LinesWithTwin(lines) ==
    {i \in DOMAIN lines : \E j \in DOMAIN lines : j # i /\ Trim(lines[i]) = Trim(lines[j])}

\* each line is counted as duplicated at most once: the percentage is at most
\* that of the lines that have an equal line in the file
CountedAtMostOnce ==
    duplicationResult # NoResult =>
        duplicationResult.value * Len(duplicationLines) <=
            Cardinality(LinesWithTwin(duplicationLines)) * 100 * Milli

\* C26: per-file duplication counts every trimmed line of at least 10
\* characters: a file with two equal trimmed lines of exactly 10 characters has
\* a duplication percentage above 0, and each line is counted at most once.
C26_TenCharactersCounted ==
    /\ CountedAtMostOnce
    /\ duplicationResult # NoResult =>
          ((\E i \in LinesWithTwin(duplicationLines) :
               LineLength(Trim(duplicationLines[i])) = 10)
              => duplicationResult.value > 0)

-----------------------------------------------------------------------------
(* analyzeCodebase as a state machine: one step per file of the list *)

\* the directory the server runs in; the files of fsys lie in it
ProjectDir == "."

NewEntitiesMutant(left) == left

\* const entities: CodeEntity[] = [] (line 567), whatever an earlier call left
NewEntities(left) == <<>>

ReadThrowsMutant(filePath) == FALSE

\* fs.readFileSync(fullPath, 'utf-8') throws
ReadThrows(filePath) == ~fsys[filePath].readable

\* `${fileName}_analysis.json`
FileReportName(filePath) == <<BaseName(filePath), "_analysis.json">>

\* generateFileReport: the content of the report of one file
FileReport(filePath, lines, languageEntities, fileRelationships, fileVulnerabilities, fileQuality) ==
    [file_path |-> filePath,
     lines_of_code |-> Len(lines),
     language |-> detectLanguage(ExtName(filePath)),
     entities |-> SelectSeq(languageEntities, LAMBDA e : e.filePath = filePath),
     relationships |-> SelectSeq(fileRelationships, LAMBDA r : r.from = filePath),
     vulnerabilities |->
         SelectSeq(fileVulnerabilities, LAMBDA v : v.location.file = filePath),
     quality_metrics |-> fileQuality]

calculateQualityGrade(metrics) ==
    LET score == calculateOverallQualityScore(metrics)
    IN  CASE score.kind = "nan" -> "F (Fail)"
          [] score.kind = "-inf" -> "F (Fail)"
          [] score.kind = "+inf" -> "A (Excellent)"
          [] score.v >= 90 * Milli -> "A (Excellent)"
          [] score.v >= 80 * Milli -> "B (Good)"
          [] score.v >= 70 * Milli -> "C (Fair)"
          [] score.v >= 60 * Milli -> "D (Poor)"
          [] OTHER -> "F (Fail)"

SeverityWeight(severity) ==
    CASE severity = "critical" -> 10
      [] severity = "high" -> 7
      [] severity = "medium" -> 4
      [] severity = "low" -> 1
      [] OTHER -> 0

calculateSecurityScore(found) ==
    Max(0, 100 - SumSeq([k \in DOMAIN found |-> SeverityWeight(found[k].severity)]))

\* generateComprehensiveReports up to its first await: reports 1 to 7
EarlyReports(paths, ents, rels, vulns, metrics) ==
    (<<"entity_inventory.json">> :>
         [total_files |-> Len(paths), total_entities |-> Len(ents)])
    @@ (<<"architecture_relationships.json">> :> [total_relationships |-> Len(rels)])
    @@ (<<"security_assessment.json">> :>
            [total_vulnerabilities |-> Len(vulns),
             security_score |-> calculateSecurityScore(vulns)])
    @@ (<<"quality_assessment.json">> :>
            [overall_quality_score |-> calculateOverallQualityScore(metrics),
             quality_breakdown |-> metrics,
             quality_grade |-> calculateQualityGrade(metrics)])
    @@ (<<"executive_summary.json">> :> [files_analyzed |-> Len(paths)])
    @@ (<<"analysis_dashboard.html">> :> [files_analyzed |-> Len(paths)])
    @@ (<<"dependency_analysis.json">> :> [files_analyzed |-> Len(paths)])

\* the names of reports 8 to 11, each written after an await, in this order
LateReportOrder ==
    <<<<"code_evolution_analysis.json">>, <<"performance_profile_analysis.json">>,
      <<"code_clone_analysis.json">>, <<"documentation_quality_analysis.json">>>>

LateReportNames == Range(LateReportOrder)

\* the start of analyzeCodebase (lines 567-582): fresh accumulators, a new session
\* directory under the engine's codebasePath
StartCodebase(base, paths) ==
    /\ filePc \in {"idle", "returned"}
    /\ previousRun' = IF filePc = "returned"
                      THEN [status |-> "returned", filePaths |-> codebaseFilePaths,
                            result |-> analysisResult]
                      ELSE previousRun
    /\ codebasePath' = base
    /\ codebaseFilePaths' = paths
    /\ filePc' = "files"
    /\ fileIndex' = 0
    /\ foundEntities' = NewEntities(foundEntities)
    /\ foundRelationships' = <<>>
    /\ foundVulnerabilities' = <<>>
    /\ sumQualityMetrics' = ZeroMetrics
    /\ sessionBase' = base
    /\ reports' = <<>>
    /\ latePending' = <<>>
    /\ analysisResult' = NoResult

\* engine.analyzeCodebase(filePaths), called directly on an engine for the project
AnalyzeCodebase(paths) ==
    /\ toolPc = "idle"
    /\ StartCodebase(ProjectDir, paths)
    /\ UNCHANGED <<fsys, cloneVars, scanVars, metricVars, duplicationVars, toolVars>>

\* one pass through the body of the loop (lines 585-612)
AnalyzeFile ==
    /\ filePc = "files"
    /\ fileIndex < Len(codebaseFilePaths)
    /\ fileIndex' = fileIndex + 1
    /\ LET filePath == codebaseFilePaths[fileIndex + 1]
           lines == fsys[filePath].lines
           languageEntities == extractEntities(lines, filePath)
           found == foundEntities \o languageEntities
           related == findRelationships(found, lines, filePath)
           fileVulnerabilities == analyzeSecurity(lines, filePath)
           fileQuality == analyzeQuality(lines)
       IN  IF ReadThrows(filePath)
           THEN UNCHANGED <<foundEntities, foundRelationships, foundVulnerabilities,
                            sumQualityMetrics, reports>>
           ELSE /\ foundEntities' = found
                /\ IF related.threw
                   THEN UNCHANGED <<foundRelationships, foundVulnerabilities,
                                    sumQualityMetrics, reports>>
                   ELSE /\ foundRelationships' =
                              foundRelationships \o related.relationships
                        /\ foundVulnerabilities' =
                              foundVulnerabilities \o fileVulnerabilities
                        /\ sumQualityMetrics' =
                              updateQualityMetrics(sumQualityMetrics, fileQuality)
                        /\ reports' =
                              (FileReportName(filePath) :>
                                   FileReport(filePath, lines, languageEntities,
                                              related.relationships,
                                              fileVulnerabilities, fileQuality))
                              @@ reports
    /\ UNCHANGED <<fsys, cloneVars, scanVars, metricVars, duplicationVars, toolVars, codebasePath,
                   codebaseFilePaths, filePc, sessionBase, latePending, analysisResult,
                   previousRun>>

\* after the loop (lines 614-625): the dependency analysis, which changes none of
\* the results, reports 1 to 7, and the returned value
FinishCodebase ==
    /\ filePc = "files"
    /\ fileIndex >= Len(codebaseFilePaths)
    /\ reports' = EarlyReports(codebaseFilePaths, foundEntities, foundRelationships,
                               foundVulnerabilities, sumQualityMetrics) @@ reports
    /\ latePending' = LateReportOrder
    /\ analysisResult' = [status |-> "returned",
                          entities |-> foundEntities,
                          relationships |-> foundRelationships,
                          vulnerabilities |-> foundVulnerabilities,
                          qualityMetrics |-> finalizeQualityMetrics(sumQualityMetrics)]
    /\ filePc' = "returned"
    /\ UNCHANGED <<fsys, cloneVars, scanVars, metricVars, duplicationVars, toolVars, codebasePath,
                   codebaseFilePaths, fileIndex, foundEntities, foundRelationships,
                   foundVulnerabilities, sumQualityMetrics, sessionBase, previousRun>>

\* generateComprehensiveReports resumed after one of its awaits (lines 747-760):
\* the next of reports 8 to 11 is written
WriteLateReports ==
    /\ latePending # <<>>
    /\ reports' = (Head(latePending) :> [files_analyzed |-> Len(codebaseFilePaths)])
                  @@ reports
    /\ latePending' = Tail(latePending)
    /\ UNCHANGED <<fsys, cloneVars, scanVars, metricVars, duplicationVars, toolVars, codebasePath,
                   codebaseFilePaths, filePc, fileIndex, foundEntities,
                   foundRelationships, foundVulnerabilities, sumQualityMetrics,
                   sessionBase, analysisResult, previousRun>>

-----------------------------------------------------------------------------
(* The inputs of analyzeCodebase *)

CodePaths == {"a.py", "a.js", "c++.txt"}

PythonFile ==
    File(<<Line(0, <<"class", "foo">>),
           Line(2, <<"def", "bar">>),
           Line(4, <<"password=", "x">>),
           Line(0, <<"#", "TODO">>)>>)

ScriptFile ==
    File(<<Line(0, <<"function", "foo(){">>),
           Line(2, <<"if", "x", "eval=", "Math.random">>),
           Line(0, <<"}">>)>>)

AssignedFunctionFile ==
    File(<<Line(0, <<"x", "=", "function", "foo(){">>),
           Line(2, <<"console.log", "catch">>)>>)

TextFile == File(<<Line(0, <<"aaa", "SELECT+">>)>>)

CodeContents(path) ==
    CASE path = "a.py" -> {PythonFile, Unreadable}
      [] path = "a.js" -> {ScriptFile, AssignedFunctionFile, Unreadable}
      [] OTHER -> {TextFile, Unreadable}

CodeFileSystems == {f \in [CodePaths -> {PythonFile, ScriptFile, AssignedFunctionFile,
                                         TextFile, Unreadable}] :
                       \A path \in CodePaths : f[path] \in CodeContents(path)}

Init ==
    /\ fsys \in CodeFileSystems
    /\ ClonesIdle
    /\ ScanIdle
    /\ MetricIdle
    /\ DuplicationIdle
    /\ CodebaseIdle
    /\ ToolIdle

Next ==
    \/ \E paths \in Lists(CodePaths, MaxFiles) : AnalyzeCodebase(paths)
    \/ AnalyzeFile
    \/ FinishCodebase
    \/ WriteLateReports

Spec == Init /\ [][Next]_vars

\* the files of a list that can be read, in the order of the list
ReadableOnly(paths) == SelectSeq(paths, LAMBDA path : fsys[path].readable)

\* the entities, vulnerabilities and quality metrics of a returned value
Analysis(result) ==
    [entities |-> result.entities,
     vulnerabilities |-> result.vulnerabilities,
     qualityMetrics |-> result.qualityMetrics]

\* two calls have returned, one after the other
TwoRuns == filePc = "returned" /\ previousRun # NoResult

\* C5: a call of analyzeCodebase on a list with unreadable files returns, and it
\* returns the same entities, vulnerabilities and quality metrics as a call on the
\* same list without its unreadable files.
C5_UnreadableIgnored ==
    (TwoRuns /\ (\/ codebaseFilePaths = ReadableOnly(previousRun.filePaths)
                 \/ previousRun.filePaths = ReadableOnly(codebaseFilePaths)))
        => Analysis(analysisResult) = Analysis(previousRun.result)

\* C5 witness: a call on a list with an unreadable file and a readable one has
\* returned, then a call on the list without the unreadable file, with entities.
C5_Witness ==
    /\ TwoRuns
    /\ codebaseFilePaths = ReadableOnly(previousRun.filePaths)
    /\ codebaseFilePaths # previousRun.filePaths
    /\ Len(analysisResult.entities) > 0
    /\ Len(analysisResult.vulnerabilities) > 0

\* C7: two calls of analyzeCodebase on the same list, the files unchanged, return
\* the same entities, vulnerabilities and quality metrics in the same order.
C7_RunsRepeatable ==
    (TwoRuns /\ codebaseFilePaths = previousRun.filePaths)
        => Analysis(analysisResult) = Analysis(previousRun.result)

\* C7 witness: the second of two calls on the same list of two readable files has
\* returned entities and findings.
C7_Witness ==
    /\ TwoRuns
    /\ codebaseFilePaths = previousRun.filePaths
    /\ Len(codebaseFilePaths) = 2
    /\ Len(analysisResult.entities) > 1
    /\ Len(analysisResult.vulnerabilities) > 1

\* C9: the maintainabilityIndex of the quality metrics that analyzeCodebase
\* returns is a number between 0 and 171.
C9_IndexInRange ==
    filePc = "returned" =>
        /\ analysisResult.qualityMetrics.maintainabilityIndex.kind = "fin"
        /\ 0 <= analysisResult.qualityMetrics.maintainabilityIndex.v
        /\ analysisResult.qualityMetrics.maintainabilityIndex.v <= 171 * Milli

\* C10: the overall quality score in the quality report of an analysis is a
\* number between 0 and 100.
C10_ScoreInRange ==
    filePc = "returned" =>
        LET score == reports[<<"quality_assessment.json">>].overall_quality_score
        IN  /\ score.kind = "fin"
            /\ 0 <= score.v
            /\ score.v <= 100 * Milli


\* the list positions whose file went through the body of the loop without an
\* exception: the file can be read, and no entity found up to and including this
\* file has a name that is no regular expression
AnalysedWithoutError(paths) ==
    {k \in DOMAIN paths :
        /\ fsys[paths[k]].readable
        /\ \A m \in 1..k :
              fsys[paths[m]].readable =>
                  \A e \in Range(extractEntities(fsys[paths[m]].lines, paths[m])) :
                      e.name \notin InvalidPatterns}

\* the quality metrics of the file at one list position, 0 when it is not counted
MetricsAt(paths, counted, k) ==
    IF k \in counted THEN analyzeQuality(fsys[paths[k]].lines)
    ELSE ZeroMetrics

\* C11: the quality metrics analyzeCodebase returns are, field by field, the sums
\* of the per-file metrics of the files analysed without error, whatever the
\* order of the list, and they are not divided by the number of files.
C11_MetricsAreSums ==
    filePc = "returned" =>
        LET paths == codebaseFilePaths
            counted == AnalysedWithoutError(paths)
            returned == analysisResult.qualityMetrics
        IN  /\ returned.cyclomaticComplexity =
                  SumSeq([k \in DOMAIN paths |->
                             MetricsAt(paths, counted, k).cyclomaticComplexity])
            /\ returned.maintainabilityIndex =
                  Fin(SumSeq([k \in DOMAIN paths |->
                                 MetricsAt(paths, counted, k).maintainabilityIndex.v]))
            /\ returned.technicalDebtHours =
                  SumSeq([k \in DOMAIN paths |->
                             MetricsAt(paths, counted, k).technicalDebtHours])
            /\ returned.duplicationPercentage =
                  SumSeq([k \in DOMAIN paths |->
                             MetricsAt(paths, counted, k).duplicationPercentage])

\* C11 witness: a call on two different files, both analysed without error, has
\* returned, after a call on the same two files in the other order, and the
\* returned complexity is more than either file's own.
C11_Witness ==
    /\ TwoRuns
    /\ Len(codebaseFilePaths) = 2
    /\ codebaseFilePaths[1] # codebaseFilePaths[2]
    /\ previousRun.filePaths = <<codebaseFilePaths[2], codebaseFilePaths[1]>>
    /\ AnalysedWithoutError(codebaseFilePaths) = {1, 2}
    /\ analysisResult.qualityMetrics = previousRun.result.qualityMetrics
    /\ \A k \in 1..2 :
          analysisResult.qualityMetrics.cyclomaticComplexity >
              analyzeQuality(fsys[codebaseFilePaths[k]].lines).cyclomaticComplexity

\* the names of the eleven reports of an analysis session
AllReportNames ==
    DOMAIN EarlyReports(<<>>, <<>>, <<>>, <<>>, ZeroMetrics) \cup LateReportNames

\* C20: when the promise returned by analyzeCodebase has resolved, every report
\* of that analysis session is written in the session directory.
C20_AllReportsWritten ==
    filePc = "returned" => AllReportNames \subseteq DOMAIN reports

\* the reports written before the first await of generateComprehensiveReports
\* are in the session directory when analyzeCodebase has returned, and the
\* late ones follow in the order of the awaits
EarlyReportsWritten ==
    filePc = "returned" =>
        /\ DOMAIN EarlyReports(<<>>, <<>>, <<>>, <<>>, ZeroMetrics) \subseteq DOMAIN reports
        /\ AllReportNames \subseteq DOMAIN reports \cup Range(latePending)
        /\ Range(latePending) \cap DOMAIN reports = {}

\* the entries of a list are pairwise different
DistinctPaths(paths) == \A k, m \in DOMAIN paths : paths[k] = paths[m] => k = m

\* the individual report of the file at one list position is in the session
\* directory and is that file's own
OwnReportWritten(paths, k) ==
    LET filePath == paths[k]
        lines == fsys[filePath].lines
    IN  /\ FileReportName(filePath) \in DOMAIN reports
        /\ reports[FileReportName(filePath)].file_path = filePath
        /\ reports[FileReportName(filePath)].entities =
               SelectSeq(extractEntities(lines, filePath), LAMBDA e : e.filePath = filePath)
        /\ reports[FileReportName(filePath)].vulnerabilities =
               analyzeSecurity(lines, filePath)
        /\ reports[FileReportName(filePath)].quality_metrics = analyzeQuality(lines)

\* C21: after analyzeCodebase over a list of distinct readable files, the session
\* directory holds, for every analysed file, a report with that file's own path,
\* entities, findings and metrics.
C21_OneReportPerFile ==
    (filePc = "returned" /\ DistinctPaths(codebaseFilePaths)) =>
        \A k \in AnalysedWithoutError(codebaseFilePaths) :
            OwnReportWritten(codebaseFilePaths, k)

\* the same for lists whose files differ in their name without the extension
ReportPerBaseName ==
    (/\ filePc = "returned"
     /\ \A k, m \in DOMAIN codebaseFilePaths :
            BaseName(codebaseFilePaths[k]) = BaseName(codebaseFilePaths[m]) => k = m) =>
        \A k \in AnalysedWithoutError(codebaseFilePaths) :
            OwnReportWritten(codebaseFilePaths, k)

\* every entity of a sequence has a defined, non-empty name
AllNamed(entities) ==
    \A k \in DOMAIN entities : entities[k].name # Undefined /\ entities[k].name # ""

\* C27: every entity a language recognizer produces has a defined, non-empty
\* name, in the entities analyzeCodebase collects, returns and writes to the
\* individual reports; the JavaScript recognizer emits no function entity
\* whose name is undefined.
C27_EntitiesNamed ==
    /\ AllNamed(foundEntities)
    /\ analysisResult # NoResult => AllNamed(analysisResult.entities)
    /\ \A path \in CodePaths :
          FileReportName(path) \in DOMAIN reports =>
              AllNamed(reports[FileReportName(path)].entities)

\* the entities of the files that are not JavaScript or TypeScript have a
\* defined, non-empty name
OtherEntitiesNamed ==
    \A k \in DOMAIN foundEntities :
        detectLanguage(ExtName(foundEntities[k].filePath)) \notin {"javascript", "typescript"}
            => foundEntities[k].name # Undefined /\ foundEntities[k].name # ""

\* the entities and the findings of the files of a list analysed without error
EntitiesOfAnalysed(paths) ==
    Flatten([k \in DOMAIN paths |->
                IF k \in AnalysedWithoutError(paths)
                THEN extractEntities(fsys[paths[k]].lines, paths[k])
                ELSE <<>>])

FindingsOfAnalysed(paths) ==
    Flatten([k \in DOMAIN paths |->
                IF k \in AnalysedWithoutError(paths)
                THEN analyzeSecurity(fsys[paths[k]].lines, paths[k])
                ELSE <<>>])

\* the findings analyzeCodebase returns are those of the files analysed without
\* error
FindingsAllOrNothing ==
    filePc = "returned" =>
        analysisResult.vulnerabilities = FindingsOfAnalysed(codebaseFilePaths)

\* C28: processing of one file in analyzeCodebase is all-or-nothing: the
\* returned result has the entities, the findings and the quality metrics of
\* the files analysed without error, and nothing of a file for which a step
\* threw.
C28_AllOrNothing ==
    /\ FindingsAllOrNothing
    /\ C11_MetricsAreSums
    /\ filePc = "returned" =>
          analysisResult.entities = EntitiesOfAnalysed(codebaseFilePaths)

-----------------------------------------------------------------------------
(* Line positions: one clone detection, then one analysis, on the same files *)

PositionPaths == {"a.js", "b.cpp", "Makefile"}

\* files of 1, 5 or MaxCloneLines lines with a function definition on no line, on
\* the first, on the last but one or on the last
PositionTexts ==
    UNION {{CloneFile(n, p, CloneFunction) : p \in {0, 1, n - 1, n}} :
              n \in {1, 5, MaxCloneLines}}

InitPositions ==
    /\ \E t \in PositionTexts :
          fsys \in {[p \in PositionPaths |->
                        IF p = "b.cpp" THEN u ELSE File(t)] :
                       u \in {File(t), File(LastLineSimilar(t)), Unreadable}}
    /\ ClonesIdle
    /\ ScanIdle
    /\ MetricIdle
    /\ DuplicationIdle
    /\ CodebaseIdle
    /\ ToolIdle

NextPositions ==
    \/ \E filePaths \in Lists(PositionPaths, MaxCloneFiles) :
          filePc = "idle" /\ AnalyzeCodeClones(filePaths)
    \/ ComparePair
    \/ FinishClones
    \/ \E paths \in Lists(PositionPaths, MaxFiles) :
          filePc = "idle" /\ clonePc \in {"idle", "done"} /\ AnalyzeCodebase(paths)
    \/ AnalyzeFile
    \/ FinishCodebase
    \/ WriteLateReports

SpecPositions == InitPositions /\ [][NextPositions]_vars

\* a line number of a file: 1-based and not beyond its last line
LineOf(filePath, n) == 1 <= n /\ n <= Len(fsys[filePath].lines)

EntityInFile(e) == LineOf(e.filePath, e.lineNumber)

CloneInFile(c) ==
    /\ LineOf(c.primaryFile, c.startLine)
    /\ LineOf(c.primaryFile, c.endLine)
    /\ c.startLine <= c.endLine

\* C14: every entity's lineNumber is a 1-based line of the entity's file, and
\* every clone's startLine and endLine are 1-based lines of its primary file with
\* startLine <= endLine, for exact, near and functional clones, while the
\* operations run and in the values they return.
C14_PositionsInFile ==
    /\ \A k \in DOMAIN foundEntities : EntityInFile(foundEntities[k])
    /\ \A k \in DOMAIN exactClones : CloneInFile(exactClones[k])
    /\ \A k \in DOMAIN nearClones : CloneInFile(nearClones[k])
    /\ \A k \in DOMAIN functionalClones : CloneInFile(functionalClones[k])
    /\ analysisResult # NoResult =>
          \A k \in DOMAIN analysisResult.entities :
              EntityInFile(analysisResult.entities[k])
    /\ cloneResult # NoResult =>
          /\ \A k \in DOMAIN cloneResult.exactClones :
                CloneInFile(cloneResult.exactClones[k])
          /\ \A k \in DOMAIN cloneResult.nearClones :
                CloneInFile(cloneResult.nearClones[k])
          /\ \A k \in DOMAIN cloneResult.functionalClones :
                CloneInFile(cloneResult.functionalClones[k])

\* C14 witness: clone detection has returned an exact clone that ends on the last
\* line of its file and a functional clone, and the analysis of files of several
\* lines has returned a function entity and a module entity.
C14_Witness ==
    /\ cloneResult # NoResult
    /\ \E k \in DOMAIN cloneResult.exactClones :
          cloneResult.exactClones[k].endLine =
              Len(fsys[cloneResult.exactClones[k].primaryFile].lines)
    /\ Len(cloneResult.functionalClones) > 0
    /\ analysisResult # NoResult
    /\ \E k \in DOMAIN analysisResult.entities :
          /\ analysisResult.entities[k].type = "function"
          /\ Len(fsys[analysisResult.entities[k].filePath].lines) > 1
    /\ \E k \in DOMAIN analysisResult.entities :
          analysisResult.entities[k].type = "module"

-----------------------------------------------------------------------------
(* One analysis of files of several languages *)

LanguagePaths == {"a.py", "A.PY", "b.cpp", "d.mq5", "Makefile"}

CppFile ==
    File(<<Line(0, <<"class", "foo", "{">>),
           Line(0, <<"void", "A::foo(){">>),
           Line(2, <<"int", "bar(){">>),
           Line(0, <<"}">>)>>)

MQL5File ==
    File(<<Line(0, <<"input", "int", "x">>),
           Line(0, <<"void", "OnTick(){">>),
           Line(0, <<"}">>)>>)

LanguageContents(path) ==
    CASE path \in {"a.py", "A.PY"} -> {PythonFile}
      [] path = "b.cpp" -> {CppFile, Unreadable}
      [] path = "d.mq5" -> {MQL5File, Unreadable}
      [] OTHER -> {TextFile, PythonFile}

InitLanguages ==
    /\ fsys \in {f \in [LanguagePaths -> {PythonFile, CppFile, MQL5File, TextFile,
                                           Unreadable}] :
                     \A path \in LanguagePaths : f[path] \in LanguageContents(path)}
    /\ ClonesIdle
    /\ ScanIdle
    /\ MetricIdle
    /\ DuplicationIdle
    /\ CodebaseIdle
    /\ ToolIdle

NextLanguages ==
    \/ \E paths \in Lists(LanguagePaths, MaxFiles) :
          filePc = "idle" /\ AnalyzeCodebase(paths)
    \/ AnalyzeFile
    \/ FinishCodebase
    \/ WriteLateReports

SpecLanguages == InitLanguages /\ [][NextLanguages]_vars

\* the language tags
LanguageTags == {"python", "javascript", "typescript", "cpp", "c", "mql5", "unknown"}

\* the extensions that have a language, in lower case
KnownExtensions ==
    {".py", ".js", ".ts", ".cpp", ".cc", ".cxx", ".c", ".h", ".hpp", ".mq5", ".mqh"}

\* the files of the list whose report has been written
Reported == {path \in Range(codebaseFilePaths) : FileReportName(path) \in DOMAIN reports}

\* C15: every file gets exactly one language tag of the seven; a file whose
\* extension is not a known one (in whatever letter case) gets "unknown" and
\* yields exactly one entity, of type module, at line 1.
C15_ClassifierTotal ==
    \A path \in Reported :
        LET report == reports[FileReportName(path)]
        IN  /\ report.language \in LanguageTags
            /\ ToLowerCase(ExtName(path)) \notin KnownExtensions =>
                  /\ report.language = "unknown"
                  /\ Len(report.entities) = 1
                  /\ report.entities[1].type = "module"
                  /\ report.entities[1].lineNumber = 1
                  /\ Len(SelectSeq(foundEntities, LAMBDA e : e.filePath = path)) =
                        Cardinality({k \in 1..fileIndex : codebaseFilePaths[k] = path})

\* C15 witness: a list of a file without a known extension, holding python text,
\* and a python file has been analysed and both reports are written.
C15_Witness ==
    /\ filePc = "returned"
    /\ codebaseFilePaths = <<"Makefile", "a.py">>
    /\ fsys["Makefile"] = PythonFile
    /\ Reported = {"Makefile", "a.py"}
    /\ reports[FileReportName("a.py")].language = "python"
    /\ Len(analysisResult.entities) = 3

\* what an entity says apart from its file
EntityShape(e) == [type |-> e.type, name |-> e.name, lineNumber |-> e.lineNumber]

\* C16: two files whose extensions differ only in letter case get the same
\* language tag where the language is reported, and the same entities are
\* extracted from them when their contents are equal.
C16_CaseInsensitive ==
    \A p \in Reported : \A q \in Reported :
        ToLowerCase(ExtName(p)) = ToLowerCase(ExtName(q)) =>
            LET rp == reports[FileReportName(p)]
                rq == reports[FileReportName(q)]
            IN  /\ rp.language = rq.language
                /\ fsys[p] = fsys[q] =>
                      [k \in DOMAIN rp.entities |-> EntityShape(rp.entities[k])] =
                      [k \in DOMAIN rq.entities |-> EntityShape(rq.entities[k])]

\* the entities, from the first on, belong to the list positions from pos on in
\* order (each to the position of its file or to a later one, never back), and
\* those of one position do not go back in line number
RECURSIVE InListOrder(_, _, _, _)
InListOrder(entities, paths, pos, lastLine) ==
    IF entities = <<>> THEN TRUE
    ELSE LET e == Head(entities)
         IN  IF pos = 0 \/ pos > Len(paths) \/ paths[pos] # e.filePath
                \/ e.lineNumber < lastLine
             THEN LET later == {m \in (pos + 1)..Len(paths) : paths[m] = e.filePath}
                  IN  IF later = {} THEN FALSE
                      ELSE InListOrder(entities, paths, First(later), 0)
             ELSE InListOrder(Tail(entities), paths, pos, e.lineNumber)

\* C17: in the entity list of analyzeCodebase the entities of one file appear
\* with non-decreasing lineNumber, and the entities of a file earlier in the
\* caller's list appear before those of a file later in the list.
C17_EntitiesInOrder ==
    /\ InListOrder(foundEntities, codebaseFilePaths, 0, 0)
    /\ analysisResult # NoResult =>
          InListOrder(analysisResult.entities, codebaseFilePaths, 0, 0)

\* C17 witness: the analysis of a C++ file with two entities on one line and
\* entities on three lines, followed by a python file, has returned.
C17_Witness ==
    /\ filePc = "returned"
    /\ codebaseFilePaths = <<"b.cpp", "a.py">>
    /\ Len(SelectSeq(analysisResult.entities, LAMBDA e : e.filePath = "b.cpp")) > 3
    /\ Len(SelectSeq(analysisResult.entities, LAMBDA e : e.filePath = "a.py")) = 2

-----------------------------------------------------------------------------
(* The handler of tool calls *)

CodebaseTools == {"analyze_codebase", "find_security_vulnerabilities"}
ToolNames == CodebaseTools \cup {"assess_code_quality", "analyze_code_clones", "no_such_tool"}

\* String(args?.codebase_path): "undefined" for an argument that is not there
StringOf(value) == IF value = Undefined THEN "undefined" ELSE value

\* the extensions of "**/*.{py,js,ts,cpp,c,h,hpp,mq5,mqh}" (lines 4082, 4126) and of
\* "**/*.{js,ts,py,cpp,c,h,hpp,cs,java}" (line 4419)
CodebaseExtensions == {".py", ".js", ".ts", ".cpp", ".c", ".h", ".hpp", ".mq5", ".mqh"}
CloneExtensions == {".js", ".ts", ".py", ".cpp", ".c", ".h", ".hpp", ".cs", ".java"}

\* the order in which glob lists the files of the project
GlobOrder == <<"a.js", "a.py", "c++.txt">>

\* glob.sync(pattern, { cwd }): the files of the project directory with one of the
\* extensions; nothing for a directory that does not exist
Glob(cwd, extensions) ==
    IF cwd = ProjectDir
    THEN SelectSeq(GlobOrder,
                   LAMBDA path : path \in DOMAIN fsys /\ ExtName(path) \in extensions)
    ELSE <<>>

\* an optional argument of a call
NotGiven == [given |-> FALSE, value |-> 0]
Given(value) == [given |-> TRUE, value |-> value]
NoPatterns == [given |-> FALSE, value |-> <<>>]

\* (args?.include_patterns as string[]) || [default]; a pattern is the set of the
\* extensions it matches
IncludePatterns(args, default) ==
    IF args.include_patterns.given THEN args.include_patterns.value ELSE <<default>>

\* the loop over the patterns: allFiles.push(...files) for each of them
GlobAll(cwd, patterns) ==
    Flatten([k \in DOMAIN patterns |-> Glob(cwd, patterns[k])])

\* clones.sort((a, b) => b.length - a.length), a stable sort
RECURSIVE InsertByLength(_, _)
InsertByLength(sorted, clone) ==
    IF sorted = <<>> THEN <<clone>>
    ELSE IF Head(sorted).length >= clone.length
         THEN <<Head(sorted)>> \o InsertByLength(Tail(sorted), clone)
         ELSE <<clone>> \o sorted

RECURSIVE SortByLength(_)
SortByLength(clones) ==
    IF clones = <<>> THEN <<>>
    ELSE InsertByLength(SortByLength(SubSeq(clones, 1, Len(clones) - 1)),
                        clones[Len(clones)])

\* largest_clones of the clone report (lines 4458-4470)
LargestClones(result) ==
    LET sorted == SortByLength(result.exactClones \o result.nearClones
                               \o result.functionalClones)
    IN  [k \in 1..Min(10, Len(sorted)) |->
            [type |-> sorted[k].type,
             primary_file |-> sorted[k].primaryFile,
             clone_files |-> sorted[k].cloneFiles,
             length |-> sorted[k].length,
             similarity |-> sorted[k].similarity,
             risk |-> sorted[k].risk]]

ErrorResponse(message) == [isError |-> TRUE, message |-> message]

\* the handler up to its await (lines 4075-4111, 4121-4138, 4161-4168, 4417-4434)
CallTool(name, args) ==
    /\ toolPc \in {"idle", "responded"}
    /\ filePc \in {"idle", "returned"}
    /\ clonePc \in {"idle", "done"}
    /\ toolRequest' = [name |-> name, arguments |-> args]
    /\ CASE name \in CodebaseTools ->
                /\ StartCodebase(StringOf(args.codebase_path),
                                 GlobAll(StringOf(args.codebase_path),
                                         IF name = "analyze_codebase"
                                         THEN IncludePatterns(args, CodebaseExtensions)
                                         ELSE <<CodebaseExtensions>>))
                /\ toolPc' = "running"
                /\ toolResponse' = NoResult
                /\ UNCHANGED cloneVars
         [] name = "assess_code_quality" /\ args.file_paths.given ->
                /\ StartCodebase(ProjectDir, args.file_paths.value)
                /\ toolPc' = "running"
                /\ toolResponse' = NoResult
                /\ UNCHANGED cloneVars
         [] name = "assess_code_quality" /\ ~args.file_paths.given ->
                /\ toolPc' = "responded"
                /\ toolResponse' = ErrorResponse(
                       "Tool execution failed: file_paths must be an array of strings")
                /\ UNCHANGED <<codebaseVars, cloneVars>>
         [] name = "analyze_code_clones" ->
                /\ StartClones(GlobAll(StringOf(args.codebase_path),
                                       IncludePatterns(args, CloneExtensions)))
                /\ toolPc' = "running"
                /\ toolResponse' = NoResult
                /\ UNCHANGED codebaseVars
         [] OTHER ->
                /\ toolPc' = "responded"
                /\ toolResponse' = ErrorResponse("Tool execution failed: Unknown tool")
                /\ UNCHANGED <<codebaseVars, cloneVars>>
    /\ UNCHANGED <<fsys, scanVars, metricVars, duplicationVars>>

\* severity_filter when the argument is not there (line 4123)
DefaultSeverityFilter == {"medium", "high", "critical"}

\* the text of the result of each tool
ToolContent(name) ==
    CASE name = "analyze_codebase" ->
             [entities |-> analysisResult.entities,
              relationships |-> analysisResult.relationships,
              vulnerabilities |-> analysisResult.vulnerabilities,
              qualityMetrics |-> analysisResult.qualityMetrics]
      [] name = "find_security_vulnerabilities" ->
             LET filteredVulnerabilities ==
                     SelectSeq(analysisResult.vulnerabilities,
                               LAMBDA v : v.severity \in DefaultSeverityFilter)
             IN  [total_vulnerabilities |-> Len(filteredVulnerabilities),
                  vulnerabilities |-> filteredVulnerabilities]
      [] name = "assess_code_quality" ->
             [overall_metrics |-> analysisResult.qualityMetrics,
              files_analyzed |-> Len(codebaseFilePaths),
              entities_count |-> Len(analysisResult.entities),
              relationships_count |-> Len(analysisResult.relationships)]
      [] name = "analyze_code_clones" ->
             [files_analyzed |-> Len(cloneFilePaths),
              total_clones |-> cloneResult.cloneMetrics.totalClones,
              duplicated_lines |-> cloneResult.cloneMetrics.totalDuplicatedLines,
              largest_clones |-> LargestClones(cloneResult)]

\* the handler after its await: the result goes to the caller
ReturnToolResponse ==
    /\ toolPc = "running"
    /\ IF toolRequest.name = "analyze_code_clones"
       THEN clonePc = "done"
       ELSE filePc = "returned"
    /\ toolResponse' = [isError |-> FALSE, content |-> ToolContent(toolRequest.name)]
    /\ toolPc' = "responded"
    /\ UNCHANGED <<fsys, cloneVars, scanVars, metricVars, duplicationVars, codebaseVars, toolRequest>>

NoPaths == [given |-> FALSE, value |-> <<>>]

ToolArguments ==
    [codebase_path : {ProjectDir, Undefined},
     include_patterns : {NoPatterns},
     file_paths : {NoPaths} \cup {[given |-> TRUE, value |-> paths] :
                                     paths \in Lists(CodePaths, MaxToolFiles)}]

InitTool ==
    /\ fsys \in CodeFileSystems
    /\ ClonesIdle
    /\ ScanIdle
    /\ MetricIdle
    /\ DuplicationIdle
    /\ CodebaseIdle
    /\ ToolIdle

NextTool ==
    \/ \E name \in ToolNames, args \in ToolArguments : CallTool(name, args)
    \/ AnalyzeFile
    \/ FinishCodebase
    \/ WriteLateReports
    \/ ComparePair
    \/ FinishClones
    \/ ReturnToolResponse

SpecTool == InitTool /\ [][NextTool]_vars

\* the request leaves out the path argument that its tool requires
MissingRequiredPath(request) ==
    \/ /\ request.name \in CodebaseTools \cup {"analyze_code_clones"}
       /\ request.arguments.codebase_path = Undefined
    \/ /\ request.name = "assess_code_quality"
       /\ ~request.arguments.file_paths.given

\* C6: a tool call without its required path argument ends in an error at once:
\* the handler never runs an analysis for it, and no session directory is made
\* under the directory that the missing argument names.
C6_MissingPathRejected ==
    MissingRequiredPath(toolRequest) =>
        /\ toolPc = "responded"
        /\ toolResponse.isError
        /\ sessionBase # "undefined"

-----------------------------------------------------------------------------
(* The analyze_code_clones tool with the limits of its input schema *)

\* the arguments of a call: min_clone_length of 3 or 6 lines or none,
\* similarity_threshold of 97 percent or none
CloneToolArguments ==
    [codebase_path : {ProjectDir, Undefined},
     include_patterns : {NoPatterns},
     file_paths : {NoPaths},
     min_clone_length : {NotGiven, Given(3), Given(6)},
     similarity_threshold : {NotGiven, Given(97)}]

\* a.js has 3 or 5 equal lines; a.py has the same lines, or the same but for the
\* last, or cannot be read
InitCloneTool ==
    /\ \E n \in {3, 5} :
          fsys \in {[p \in {"a.js", "a.py"} |->
                        IF p = "a.js" THEN File(CloneFile(n, 0, CloneBase)) ELSE u] :
                       u \in {File(CloneFile(n, 0, CloneBase)),
                              File(LastLineSimilar(CloneFile(n, 0, CloneBase))),
                              Unreadable}}
    /\ ClonesIdle
    /\ ScanIdle
    /\ MetricIdle
    /\ DuplicationIdle
    /\ CodebaseIdle
    /\ ToolIdle

NextCloneTool ==
    \/ \E args \in CloneToolArguments : CallTool("analyze_code_clones", args)
    \/ ComparePair
    \/ FinishClones
    \/ ReturnToolResponse

SpecCloneTool == InitCloneTool /\ [][NextCloneTool]_vars

\* the limit a call asks for: the argument, or the default of the input schema
LimitOf(argument, default) == IF argument.given THEN argument.value ELSE default

\* two files have m lines in a row that are equal after trimming
SharedRun(lines1, lines2, m) ==
    \E i \in 0..(Len(lines1) - m) : \E j \in 0..(Len(lines2) - m) :
        \A k \in 1..m : Trim(lines1[i + k]) = Trim(lines2[j + k])

\* C19: the analyze_code_clones tool applies the limits of its caller: no exact
\* clone is shorter than min_clone_length (5 when not supplied) and two files
\* that share that many lines in a row yield an exact clone; no near clone is
\* below similarity_threshold (80 when not supplied).
C19_LimitsApplied ==
    (/\ toolPc = "responded"
     /\ toolRequest.name = "analyze_code_clones"
     /\ ~toolResponse.isError) =>
        LET minLength == LimitOf(toolRequest.arguments.min_clone_length, 5)
            threshold == LimitOf(toolRequest.arguments.similarity_threshold, 80)
            paths == cloneFilePaths
        IN  /\ \A k \in DOMAIN cloneResult.exactClones :
                  cloneResult.exactClones[k].length >= minLength
            /\ (\E i \in DOMAIN paths : \E j \in DOMAIN paths :
                    /\ i < j
                    /\ Readable(paths[i]) /\ Readable(paths[j])
                    /\ SharedRun(fsys[paths[i]].lines, fsys[paths[j]].lines, minLength))
                  => Len(cloneResult.exactClones) > 0
            /\ \A k \in DOMAIN cloneResult.nearClones :
                  cloneResult.nearClones[k].similarity >= threshold * Milli

\* the same for the calls that supply neither limit: 5 lines and 80 percent apply
DefaultLimitsApplied ==
    (/\ toolPc = "responded"
     /\ ~toolRequest.arguments.min_clone_length.given
     /\ ~toolRequest.arguments.similarity_threshold.given) => C19_LimitsApplied

-----------------------------------------------------------------------------
(* The analyze_code_clones tool with include patterns *)

\* the include_patterns of a call: none, "**/*.js", "**/*.py", and lists of two
\* patterns that match a.js once or twice
PatternLists ==
    {<<>>, <<{".js"}>>, <<{".js"}, {".py"}>>, <<{".js"}, {".js"}>>,
     <<{".js"}, {".js", ".py"}>>, <<CloneExtensions, {".py"}>>}

PatternArguments ==
    [codebase_path : {ProjectDir},
     include_patterns : {NoPatterns} \cup {Given(patterns) : patterns \in PatternLists},
     file_paths : {NoPaths},
     min_clone_length : {NotGiven},
     similarity_threshold : {NotGiven}]

NextPatterns ==
    \/ \E args \in PatternArguments : CallTool("analyze_code_clones", args)
    \/ ComparePair
    \/ FinishClones
    \/ ReturnToolResponse

SpecPatterns == InitCloneTool /\ [][NextPatterns]_vars

\* a call of the analyze_code_clones tool has been answered
CloneToolResponded ==
    /\ toolPc = "responded"
    /\ toolRequest.name = "analyze_code_clones"
    /\ ~toolResponse.isError

\* C29: no clone reported by the analyze_code_clones tool pairs a file with
\* itself, also for include patterns that match the same file more than once:
\* the primaryFile of every clone is not among its cloneFiles.
C29_NoSelfClone ==
    CloneToolResponded =>
        /\ \A k \in DOMAIN toolResponse.content.largest_clones :
              toolResponse.content.largest_clones[k].primary_file \notin
                  Range(toolResponse.content.largest_clones[k].clone_files)
        /\ \A k \in DOMAIN cloneResult.exactClones :
              cloneResult.exactClones[k].primaryFile \notin
                  Range(cloneResult.exactClones[k].cloneFiles)

\* the same for the calls whose patterns match no file twice
NoSelfCloneOfDistinctFiles ==
    (CloneToolResponded /\ DistinctPaths(cloneFilePaths)) => C29_NoSelfClone

=============================================================================
